---------------------------- MODULE Spec2Model ----------------------------
(***************************************************************************)
(* Model of the json-flex histogram of sql/histograms/json_flex.cc: the    *)
(* key-path encoder (build_histogram_query_string), the bucket store       *)
(* (find_bucket, lookup_bucket) and the selectivity engine                 *)
(* (get_selectivity and its dispatchers).                                  *)
(*                                                                         *)
(* Text is a sequence of one-character strings.  A double is an exact      *)
(* rational [n, d] with an extra coefficient e that counts how many times  *)
(* the constant err_selectivity_val (0.123456789) has been added to it.    *)
(***************************************************************************)
EXTENDS Integers, Sequences, FiniteSets, TLC

VARIABLES m_buckets, min_frequency, call, ret

vars == <<m_buckets, min_frequency, call, ret>>

(***************************************************************************)
(* Bounds of the model.                                                    *)
(***************************************************************************)
MaxSteps == 3
MaxRawLen == 3
MaxBuckets == 1
MaxComparands == 2

(***************************************************************************)
(* Doubles.                                                                *)
(***************************************************************************)
RECURSIVE GCD(_, _)
GCD(a, b) == IF b = 0 THEN a ELSE GCD(b, a % b)

Abs(x) == IF x < 0 THEN -x ELSE x

Norm(n, d, e) ==
  IF n = 0 THEN [n |-> 0, d |-> 1, e |-> e]
  ELSE LET g == GCD(Abs(n), d) IN [n |-> n \div g, d |-> d \div g, e |-> e]

Rat(n, d) == Norm(n, d, 0)
Zero == Rat(0, 1)
One == Rat(1, 1)

RAdd(a, b) == Norm(a.n * b.d + b.n * a.d, a.d * b.d, a.e + b.e)
RSub(a, b) == Norm(a.n * b.d - b.n * a.d, a.d * b.d, a.e - b.e)
\* The operands of a product or a quotient never carry err_selectivity_val.
RMul(a, b) == Norm(a.n * b.n, a.d * b.d, 0)
RDivInt(a, k) == Norm(a.n, a.d * k, 0)
RLess(a, b) == a.n * b.d < b.n * a.d
RLeq(a, b) == a.n * b.d <= b.n * a.d
RMin(a, b) == IF RLess(b, a) THEN b ELSE a
IsIntegral(a) == a.d = 1

\* const double err_selectivity_val = 0.123456789
err_selectivity_val == [n |-> 0, d |-> 1, e |-> 1]

(***************************************************************************)
(* Text helpers.                                                           *)
(***************************************************************************)
\* std::string(first, last): the characters at positions first .. last-1.
Sub(str, first, last) == [i \in 1..(last - first) |-> str[first + i - 1]]

\* The smallest position >= from that holds a character of cs, or 0.
RECURSIVE FirstOf(_, _, _)
FirstOf(str, from, cs) ==
  IF from > Len(str) THEN 0
  ELSE IF str[from] \in cs THEN from
  ELSE FirstOf(str, from + 1, cs)

\* The largest position <= upto that holds character c, or 0.
RECURSIVE LastOf(_, _, _)
LastOf(str, upto, c) ==
  IF upto < 1 THEN 0
  ELSE IF str[upto] = c THEN upto
  ELSE LastOf(str, upto - 1, c)

TYPE_SEP == <<"_">>
KEY_SEP == <<".">>
ArrWord == <<"a", "r", "r">>
ObjWord == <<"o", "b", "j">>
NumSuffix == <<"_", "n", "u", "m">>
StrSuffix == <<"_", "s", "t", "r">>
BoolSuffix == <<"_", "b", "o", "o", "l">>

(***************************************************************************)
(* build_histogram_query_string.  ScanPath is the loop over the path       *)
(* expression: iterator_start and iterator_end are the 1-based positions   *)
(* s and e, str.end() is Len(str) + 1.  A read at or past str.end() is an  *)
(* overrun of the buffer: the scan stops with overrun set and the builder  *)
(* as it is at that point.                                                 *)
(***************************************************************************)
RECURSIVE ScanPath(_, _, _)
ScanPath(str, e, builder) ==
  LET n == Len(str) IN
  IF e = n + 1 THEN [overrun |-> FALSE, out |-> builder]
  ELSE IF e > n + 1 THEN [overrun |-> TRUE, out |-> builder]
  ELSE
    \* if (*iterator_end == '.') { iterator_end += 1; iterator_start += 1; }
    LET e1 == IF str[e] = "." THEN e + 1 ELSE e IN
    IF e1 > n THEN [overrun |-> TRUE, out |-> builder]
    ELSE IF str[e1] = "["
    THEN
      LET close == FirstOf(str, e1 + 1, {"]"})
          sep == IF Len(builder) > 0 THEN TYPE_SEP \o ArrWord \o KEY_SEP ELSE <<>>
      IN IF close = 0 THEN [overrun |-> TRUE, out |-> builder]
         ELSE ScanPath(str, close + 1, builder \o sep \o Sub(str, e1 + 1, close))
    ELSE
      LET k == FirstOf(str, e1, {".", "["}) IN
      IF k = 0 THEN [overrun |-> FALSE, out |-> builder \o Sub(str, e1, n + 1)]
      ELSE
        LET obj == IF str[k] = "." THEN TYPE_SEP \o ObjWord \o KEY_SEP ELSE <<>>
        IN ScanPath(str, k, builder \o Sub(str, e1, k) \o obj)

\* The item types a comparand can have (Item::Type), "" for no comparand.
ItemTypes == {"INT_ITEM", "REAL_ITEM", "STRING_ITEM", "FUNC_ITEM", "NULL_ITEM", "FIELD_ITEM"}

\* TypeSuffix with a suffix of its own for floats.
TypeSuffix_FloatSuffix(type) ==
  CASE type = "INT_ITEM" -> NumSuffix
    [] type = "REAL_ITEM" -> <<"_", "f", "l", "o", "a", "t">>
    [] type = "STRING_ITEM" -> StrSuffix
    [] type = "FUNC_ITEM" -> BoolSuffix
    [] OTHER -> <<>>

\* switch (comparand->type()) of build_histogram_query_string.
TypeSuffix(type) ==
  CASE type \in {"INT_ITEM", "REAL_ITEM"} -> NumSuffix
    [] type = "STRING_ITEM" -> StrSuffix
    [] type = "FUNC_ITEM" -> BoolSuffix
    [] OTHER -> <<>>

SuffixedTypes == {"INT_ITEM", "REAL_ITEM", "STRING_ITEM", "FUNC_ITEM"}

\* The result: err is the returned flag, asserted tells that an assert(false)
\* was passed, overrun that the scan read past the end of the path.
build_histogram_query_string(path, ctype, arg_type_certain) ==
  LET scan == ScanPath(path, 2, <<>>)
      typed == ctype /= "" /\ arg_type_certain
  IN [err |-> typed /\ ctype \notin SuffixedTypes,
      asserted |-> typed /\ ctype \notin SuffixedTypes,
      overrun |-> scan.overrun,
      out |-> IF typed THEN scan.out \o TypeSuffix(ctype) ELSE scan.out]


(***************************************************************************)
(* Path expressions handed to the encoder: well-formed ones made of '.key' *)
(* and '[N]' steps, and raw character strings.                             *)
(***************************************************************************)
StepKinds == {"key", "idx"}
StepName(kind) == IF kind = "key" THEN <<"k">> ELSE <<"0">>
StepText(kind) == IF kind = "key" THEN <<".">> \o StepName(kind)
                  ELSE <<"[">> \o StepName(kind) \o <<"]">>

RECURSIVE StepsText(_)
StepsText(steps) ==
  IF steps = <<>> THEN <<>> ELSE StepText(Head(steps)) \o StepsText(Tail(steps))

PathOfSteps(steps) == <<"$">> \o StepsText(steps)

SeqsUpTo(S, n) == UNION {[1..m -> S] : m \in 0..n}

(***************************************************************************)
(* Stored values.  An optional member is a sequence: <<>> for nullopt,     *)
(* <<v>> for a value.  A longlong is an integer, a double a rational, a    *)
(* bool a BOOLEAN, a string a sequence of characters.                      *)
(*                                                                         *)
(* A bucket (JsonBucket) is a record                                       *)
(*   [key_path, frequency, null_values, min_val, max_val, ndv,             *)
(*    values_type, histogram]                                              *)
(* and a sub-histogram (JsonGram<T>) a record                              *)
(*   [buckets_type, single_bucks, equi_bucks, rest_mean_frequency].        *)
(***************************************************************************)
Ord(c) == CASE c = "a" -> 97 [] c = "b" -> 98 [] c = "c" -> 99 [] c = "d" -> 100

\* stringcmp(s, t): byte-wise comparison, then the shorter string first.
RECURSIVE stringcmp(_, _)
stringcmp(s, t) ==
  IF s = <<>> /\ t = <<>> THEN 0
  ELSE IF s = <<>> THEN -1
  ELSE IF t = <<>> THEN 1
  ELSE IF Ord(Head(s)) < Ord(Head(t)) THEN -1
  ELSE IF Ord(Head(s)) > Ord(Head(t)) THEN 1
  ELSE stringcmp(Tail(s), Tail(t))

\* json_primitive is a union: lookup_bucket<double> reads member _float of a
\* value that was stored through member _int when the bucket holds integers.
\* The read gives the double with the integer's bits: 0.0 for 0, a denormal
\* (smaller than every positive comparand) for a small positive integer, a
\* NaN for a small negative one.
FloatView(v, values_type) ==
  IF values_type = "FLOAT" THEN [k |-> "num", q |-> v]
  ELSE IF v = 0 THEN [k |-> "num", q |-> Zero]
  ELSE IF v > 0 THEN [k |-> "denorm", q |-> Zero]
  ELSE [k |-> "nan", q |-> Zero]

\* x > c, x < c, x == c, x >= c for a stored double x and a comparand c.
FGt(x, c) == CASE x.k = "num" -> RLess(c, x.q)
               [] x.k = "denorm" -> RLeq(c, Zero)
               [] OTHER -> FALSE
FLt(x, c) == CASE x.k = "num" -> RLess(x.q, c)
               [] x.k = "denorm" -> RLess(Zero, c)
               [] OTHER -> FALSE
FEq(x, c) == x.k = "num" /\ x.q = c
FGe(x, c) == CASE x.k = "num" -> RLeq(c, x.q)
               [] x.k = "denorm" -> RLeq(c, Zero)
               [] OTHER -> FALSE

\* The first bucket whose key_path equals path, as an optional.
RECURSIVE FindFrom(_, _, _)
FindFrom(buckets, i, path) ==
  IF i > Len(buckets) THEN <<>>
  ELSE IF buckets[i].key_path = path THEN <<buckets[i]>>
  ELSE FindFrom(buckets, i + 1, path)

find_bucket(buckets, path) == FindFrom(buckets, 1, path)

base_freq(bucket) == RMul(bucket.frequency, RSub(One, bucket.null_values))

Tenth == Rat(1, 10)
ThreeTenths == Rat(3, 10)
Half == Rat(1, 2)

\* lookup_result{eq_frequency, lt_frequency, gt_frequency}; asserted tells
\* that the lookup passed an assert that does not hold.
Result(eq, lt, gt) == [eq |-> eq, lt |-> lt, gt |-> gt, asserted |-> FALSE]
Asserted(res) == [res EXCEPT !.asserted = TRUE]

\* The fallback that does not look at the bucket's ndv.
NdvFallback_NoNdv(bucket) ==
  Result(RMul(base_freq(bucket), Tenth), RMul(base_freq(bucket), ThreeTenths),
         RMul(base_freq(bucket), ThreeTenths))

\* The tail of every typed lookup and the whole untyped one: no sub-histogram.
NdvFallback(bucket) ==
  LET base == base_freq(bucket) IN
  IF bucket.ndv /= <<>>
  THEN Result(RDivInt(base, bucket.ndv[1]), RMul(base, ThreeTenths), RMul(base, ThreeTenths))
  ELSE Result(RMul(base, Tenth), RMul(base, ThreeTenths), RMul(base, ThreeTenths))

\* The fallback with 0.3 for equality as well.
NotFound_AllThreeTenths(minf) ==
  Result(RMul(minf, ThreeTenths), RMul(minf, ThreeTenths), RMul(minf, ThreeTenths))

NotFound(minf) == Result(RMul(minf, Tenth), RMul(minf, ThreeTenths), RMul(minf, ThreeTenths))

\* Json_flex::lookup_bucket(const String &path)
lookup_bucket(buckets, minf, path) ==
  LET opt == find_bucket(buckets, path) IN
  IF opt /= <<>> THEN NdvFallback(opt[1]) ELSE NotFound(minf)

\* The singleton scan with the matching entry's frequency left in gt.
RECURSIVE ScanSingleInt_GtKeepsEntry(_, _, _, _, _)
ScanSingleInt_GtKeepsEntry(bucks, i, cumulative, base, v) ==
  IF i > Len(bucks) THEN <<>>
  ELSE IF bucks[i].value = v
  THEN <<Result(RMul(base, bucks[i].frequency), RMul(cumulative, base),
                RMul(RSub(One, cumulative), base))>>
  ELSE IF bucks[i].value > v
  THEN <<Result(Zero, RMul(cumulative, base), RMul(RSub(One, cumulative), base))>>
  ELSE ScanSingleInt_GtKeepsEntry(bucks, i + 1, RAdd(cumulative, bucks[i].frequency), base, v)

\* The scans return <<>> when the loop ends without a return.
RECURSIVE ScanSingleInt(_, _, _, _, _)
ScanSingleInt(bucks, i, cumulative, base, v) ==
  IF i > Len(bucks) THEN <<>>
  ELSE IF bucks[i].value = v
  THEN <<Result(RMul(base, bucks[i].frequency), RMul(cumulative, base),
                RMul(RSub(One, RAdd(cumulative, bucks[i].frequency)), base))>>
  ELSE IF bucks[i].value > v
  THEN <<Result(Zero, RMul(cumulative, base), RMul(RSub(One, cumulative), base))>>
  ELSE ScanSingleInt(bucks, i + 1, RAdd(cumulative, bucks[i].frequency), base, v)

\* The equi-height scan that passes an entry whose upper_bound is the
\* comparand.
RECURSIVE ScanEquiInt_Strict(_, _, _, _, _)
ScanEquiInt_Strict(bucks, i, cumulative, base, v) ==
  IF i > Len(bucks) THEN <<>>
  ELSE IF bucks[i].upper_bound > v
  THEN <<Result(RDivInt(RMul(base, bucks[i].frequency), bucks[i].ndv),
                RMul(cumulative, base), RMul(RSub(One, cumulative), base))>>
  ELSE ScanEquiInt_Strict(bucks, i + 1, RAdd(cumulative, bucks[i].frequency), base, v)

RECURSIVE ScanEquiInt(_, _, _, _, _)
ScanEquiInt(bucks, i, cumulative, base, v) ==
  IF i > Len(bucks) THEN <<>>
  ELSE IF bucks[i].upper_bound >= v
  THEN <<Result(RDivInt(RMul(base, bucks[i].frequency), bucks[i].ndv),
                RMul(cumulative, base), RMul(RSub(One, cumulative), base))>>
  ELSE ScanEquiInt(bucks, i + 1, RAdd(cumulative, bucks[i].frequency), base, v)

RECURSIVE ScanSingleDouble(_, _, _, _, _, _)
ScanSingleDouble(bucks, i, cumulative, base, v, vt) ==
  IF i > Len(bucks) THEN <<>>
  ELSE IF FEq(FloatView(bucks[i].value, vt), v)
  THEN <<Result(RMul(base, bucks[i].frequency), RMul(cumulative, base),
                RMul(RSub(One, RAdd(cumulative, bucks[i].frequency)), base))>>
  ELSE IF FGt(FloatView(bucks[i].value, vt), v)
  THEN <<Result(Zero, RMul(cumulative, base), RMul(RSub(One, cumulative), base))>>
  ELSE ScanSingleDouble(bucks, i + 1, RAdd(cumulative, bucks[i].frequency), base, v, vt)

RECURSIVE ScanEquiDouble(_, _, _, _, _, _)
ScanEquiDouble(bucks, i, cumulative, base, v, vt) ==
  IF i > Len(bucks) THEN <<>>
  ELSE IF FGe(FloatView(bucks[i].upper_bound, vt), v)
  THEN <<Result(RDivInt(RMul(base, bucks[i].frequency), bucks[i].ndv),
                RMul(cumulative, base), RMul(RSub(One, cumulative), base))>>
  ELSE ScanEquiDouble(bucks, i + 1, RAdd(cumulative, bucks[i].frequency), base, v, vt)

RestMean(gram) == IF gram.rest_mean_frequency /= <<>> THEN gram.rest_mean_frequency[1] ELSE Zero

\* The string scan that counts the matching entry among the smaller ones.
RECURSIVE ScanSingleString_LtHoldsEntry(_, _, _, _, _, _)
ScanSingleString_LtHoldsEntry(bucks, i, cumulative, base, v, rest) ==
  IF i > Len(bucks) THEN Result(RMul(rest, base), base, Zero)
  ELSE IF stringcmp(bucks[i].value, v) = 0
  THEN Result(RMul(base, bucks[i].frequency),
              RMul(RAdd(cumulative, bucks[i].frequency), base),
              RMul(RSub(One, RAdd(cumulative, bucks[i].frequency)), base))
  ELSE IF stringcmp(bucks[i].value, v) > 0
  THEN Result(RMul(rest, base), RMul(cumulative, base), RMul(RSub(One, cumulative), base))
  ELSE ScanSingleString_LtHoldsEntry(bucks, i + 1, RAdd(cumulative, bucks[i].frequency),
                                     base, v, rest)

RECURSIVE ScanSingleString(_, _, _, _, _, _)
ScanSingleString(bucks, i, cumulative, base, v, rest) ==
  IF i > Len(bucks) THEN Result(RMul(rest, base), base, Zero)
  ELSE IF stringcmp(bucks[i].value, v) = 0
  THEN Result(RMul(base, bucks[i].frequency), RMul(cumulative, base),
              RMul(RSub(One, RAdd(cumulative, bucks[i].frequency)), base))
  ELSE IF stringcmp(bucks[i].value, v) > 0
  THEN Result(RMul(rest, base), RMul(cumulative, base), RMul(RSub(One, cumulative), base))
  ELSE ScanSingleString(bucks, i + 1, RAdd(cumulative, bucks[i].frequency), base, v, rest)

\* Json_flex::lookup_bucket<longlong> and <double>; each may hand over to the
\* other once.
RECURSIVE lookup_bucket_int(_, _, _, _)
RECURSIVE lookup_bucket_double(_, _, _, _)

lookup_bucket_double(buckets, minf, path, cmp_val) ==
  LET opt == find_bucket(buckets, path) IN
  IF opt = <<>> THEN NotFound(minf)
  ELSE
    LET bucket == opt[1]
        base == base_freq(bucket)
        vt == bucket.values_type
        ranged == bucket.min_val /= <<>> /\ bucket.max_val /= <<>>
    IN
    IF ranged /\ FGt(FloatView(bucket.min_val[1], vt), cmp_val)
    THEN Result(Zero, Zero, base)
    ELSE IF ranged /\ FLt(FloatView(bucket.max_val[1], vt), cmp_val)
    THEN Result(Zero, base, Zero)
    ELSE IF vt = "INT" /\ IsIntegral(cmp_val)
    THEN lookup_bucket_int(buckets, minf, path, cmp_val.n)
    ELSE IF bucket.histogram /= <<>>
    THEN
      LET gram == bucket.histogram[1]
          hit == IF gram.buckets_type = "SINGLETON"
                 THEN ScanSingleDouble(gram.single_bucks, 1, Zero, base, cmp_val, vt)
                 ELSE ScanEquiDouble(gram.equi_bucks, 1, Zero, base, cmp_val, vt)
      IN IF hit /= <<>>
         THEN IF vt = "FLOAT" THEN hit[1] ELSE Asserted(hit[1])
         ELSE Asserted(NdvFallback(bucket))
    ELSE NdvFallback(bucket)

lookup_bucket_int(buckets, minf, path, cmp_val) ==
  LET opt == find_bucket(buckets, path) IN
  IF opt = <<>> THEN NotFound(minf)
  ELSE
    LET bucket == opt[1]
        base == base_freq(bucket)
        ranged == bucket.min_val /= <<>> /\ bucket.max_val /= <<>>
    IN
    IF bucket.values_type = "FLOAT"
    THEN lookup_bucket_double(buckets, minf, path, Rat(cmp_val, 1))
    ELSE IF ranged /\ bucket.min_val[1] > cmp_val
    THEN Result(Zero, Zero, base)
    ELSE IF ranged /\ bucket.max_val[1] < cmp_val
    THEN Result(Zero, base, Zero)
    ELSE IF bucket.histogram /= <<>>
    THEN
      LET gram == bucket.histogram[1] IN
      IF gram.buckets_type = "SINGLETON"
      THEN LET hit == ScanSingleInt(gram.single_bucks, 1, Zero, base, cmp_val)
           IN IF hit /= <<>> THEN hit[1] ELSE NdvFallback(bucket)
      ELSE LET hit == ScanEquiInt(gram.equi_bucks, 1, Zero, base, cmp_val)
           IN IF hit /= <<>> THEN hit[1] ELSE Asserted(NdvFallback(bucket))
    ELSE NdvFallback(bucket)

\* Json_flex::lookup_bucket<String>
lookup_bucket_string(buckets, minf, path, cmp_val) ==
  LET opt == find_bucket(buckets, path) IN
  IF opt = <<>> THEN NotFound(minf)
  ELSE
    LET bucket == opt[1]
        base == base_freq(bucket)
        ranged == bucket.min_val /= <<>> /\ bucket.max_val /= <<>>
    IN
    IF ranged /\ stringcmp(bucket.min_val[1], cmp_val) > 0
    THEN Result(Zero, Zero, base)
    ELSE IF ranged /\ stringcmp(bucket.max_val[1], cmp_val) < 0
    THEN Result(Zero, base, Zero)
    ELSE IF bucket.histogram /= <<>>
    THEN
      LET gram == bucket.histogram[1] IN
      IF gram.buckets_type = "SINGLETON"
      THEN ScanSingleString(gram.single_bucks, 1, Zero, base, cmp_val, RestMean(gram))
      ELSE Asserted(NdvFallback(bucket))
    ELSE NdvFallback(bucket)

\* Json_flex::lookup_bucket<bool>
lookup_bucket_bool(buckets, minf, path, cmp_val) ==
  LET opt == find_bucket(buckets, path) IN
  IF opt = <<>> THEN Result(RMul(minf, Half), RMul(minf, Half), RMul(minf, Half))
  ELSE
    LET bucket == opt[1]
        base == base_freq(bucket)
        ranged == bucket.min_val /= <<>> /\ bucket.max_val /= <<>>
        half == Result(RMul(base, Half), RMul(base, Half), RMul(base, Half))
    IN
    IF ranged /\ bucket.min_val[1] = bucket.max_val[1]
    THEN Result(IF bucket.min_val[1] = cmp_val THEN base ELSE Zero, Zero, Zero)
    ELSE IF bucket.histogram /= <<>>
    THEN
      \* m_buckets is a union: single_bucks of an equi-height sub-histogram is
      \* its equi_bucks array, whose entries start with the same two members.
      LET gram == bucket.histogram[1]
          single == gram.buckets_type = "SINGLETON"
          bucks == IF single THEN gram.single_bucks
                   ELSE [i \in 1..Len(gram.equi_bucks) |->
                           [value |-> gram.equi_bucks[i].upper_bound,
                            frequency |-> gram.equi_bucks[i].frequency]]
          first == bucks[1]
          mult == IF first.value = cmp_val THEN first.frequency
                  ELSE RSub(One, first.frequency)
          res == IF Len(bucks) >= 1 THEN Result(RMul(mult, base), Zero, Zero) ELSE half
      IN IF single THEN res ELSE Asserted(res)
    ELSE half

\* lookup_bucket(path, cmp_val) for a typed value tv = [t, v]: the template
\* instance the comparand's C++ type selects.
lookup_bucket_typed(buckets, minf, path, tv) ==
  CASE tv.t = "longlong" -> lookup_bucket_int(buckets, minf, path, tv.v)
    [] tv.t = "double" -> lookup_bucket_double(buckets, minf, path, tv.v)
    [] tv.t = "String" -> lookup_bucket_string(buckets, minf, path, tv.v)
    [] tv.t = "bool" -> lookup_bucket_bool(buckets, minf, path, tv.v)

(***************************************************************************)
(* The selectivity getters.  A getter returns [v, asserted].               *)
(***************************************************************************)
Val(v, asserted) == [v |-> v, asserted |-> asserted]

\* path.substr(0, path.strrstr(TYPE_SEP, path.length())): the path without
\* its last "_" and what follows it.
WithoutSuffix(path) == Sub(path, 1, LastOf(path, Len(path), TYPE_SEP[1]))

\* The member of a lookup_result a getter returns.
EqOf(r) == Val(r.eq, r.asserted)
LtOf(r) == Val(r.lt, r.asserted)
GtOf(r) == Val(r.gt, r.asserted)
\* NEQ taken from the whole column instead of the path's base frequency.
NeqOf_FromOne(base, r) == Val(RSub(One, r.eq), r.asserted)
NeqOf(base, r) == Val(RSub(base, r.eq), r.asserted)

\* get_equal_to_selectivity(path, cmp_val)
get_equal_to_selectivity_typed(buckets, minf, path, tv) ==
  IF find_bucket(buckets, path) /= <<>>
  THEN EqOf(lookup_bucket_typed(buckets, minf, path, tv))
  ELSE Val(lookup_bucket(buckets, minf, WithoutSuffix(path)).eq, FALSE)

NineTenths == Rat(9, 10)
EightTenths == Rat(8, 10)

\* get_not_equal_to_selectivity(path, cmp_val)
get_not_equal_to_selectivity_typed(buckets, minf, path, tv) ==
  LET opt == find_bucket(buckets, path) IN
  IF opt /= <<>>
  THEN NeqOf(base_freq(opt[1]), lookup_bucket_typed(buckets, minf, path, tv))
  ELSE Val(RMul(minf, NineTenths), FALSE)

get_less_than_selectivity_typed(buckets, minf, path, tv) ==
  LtOf(lookup_bucket_typed(buckets, minf, path, tv))

get_greater_than_selectivity_typed(buckets, minf, path, tv) ==
  GtOf(lookup_bucket_typed(buckets, minf, path, tv))

\* The getters without a comparand value.
get_not_equal_to_selectivity(buckets, minf, path) ==
  LET opt == find_bucket(buckets, path) IN
  IF opt /= <<>>
  THEN Val(RSub(base_freq(opt[1]), lookup_bucket(buckets, minf, path).eq), FALSE)
  ELSE Val(RMul(minf, NineTenths), FALSE)

get_equal_to_selectivity(buckets, minf, path) ==
  Val(lookup_bucket(buckets, minf, path).eq, FALSE)

get_less_than_selectivity(buckets, minf, path) ==
  Val(lookup_bucket(buckets, minf, path).lt, FALSE)

get_greater_than_selectivity(buckets, minf, path) ==
  Val(lookup_bucket(buckets, minf, path).gt, FALSE)

get_not_eq_null_selectivity(buckets, minf, path) ==
  LET opt == find_bucket(buckets, path) IN
  IF opt /= <<>> THEN base_freq(opt[1]) ELSE RMul(minf, EightTenths)

get_exists_selectivity(buckets, minf, path) ==
  LET opt == find_bucket(buckets, path) IN
  IF opt /= <<>> THEN opt[1].frequency ELSE minf

(***************************************************************************)
(* The dispatchers.  enum_operator is a string.                            *)
(***************************************************************************)
Operators == {"EQUALS_TO", "NOT_EQUALS_TO", "LESS_THAN", "LESS_THAN_OR_EQUAL",
              "GREATER_THAN", "GREATER_THAN_OR_EQUAL", "BETWEEN", "NOT_BETWEEN",
              "IN_LIST", "NOT_IN_LIST", "IS_NULL", "IS_NOT_NULL"}

\* selectivity_getter_dispatch<T>(jflex, arg_path, op, value)
selectivity_getter_dispatch_typed(buckets, minf, arg_path, op, tv) ==
  CASE op = "EQUALS_TO" -> get_equal_to_selectivity_typed(buckets, minf, arg_path, tv)
    [] op = "NOT_EQUALS_TO" -> get_not_equal_to_selectivity_typed(buckets, minf, arg_path, tv)
    [] op \in {"LESS_THAN_OR_EQUAL", "LESS_THAN"} ->
         get_less_than_selectivity_typed(buckets, minf, arg_path, tv)
    [] op \in {"GREATER_THAN_OR_EQUAL", "GREATER_THAN"} ->
         get_greater_than_selectivity_typed(buckets, minf, arg_path, tv)
    [] OTHER -> Val(err_selectivity_val, TRUE)

\* selectivity_getter_dispatch(jflex, arg_path, op)
selectivity_getter_dispatch(buckets, minf, arg_path, op) ==
  CASE op = "NOT_EQUALS_TO" -> get_not_equal_to_selectivity(buckets, minf, arg_path)
    [] op = "EQUALS_TO" -> get_equal_to_selectivity(buckets, minf, arg_path)
    [] op \in {"LESS_THAN_OR_EQUAL", "LESS_THAN"} ->
         get_less_than_selectivity(buckets, minf, arg_path)
    [] op \in {"GREATER_THAN_OR_EQUAL", "GREATER_THAN"} ->
         get_greater_than_selectivity(buckets, minf, arg_path)
    [] OTHER -> Val(err_selectivity_val, TRUE)

\* A comparand is an Item [type, const, val]: val is val_int() of an INT_ITEM
\* or a FUNC_ITEM (TRUE and FALSE are function items), val_real() of a
\* REAL_ITEM, val_str() of a STRING_ITEM.
val_bool(item) == item.val /= 0

\* BETWEEN that leaves out what lies above the upper comparand.
BetweenOf_OnlyBelow(below, above, checked) ==
  Val(RSub(One, below.v), ~checked \/ below.asserted \/ above.asserted)

\* 1.0 - (gt + lt) of BETWEEN; checked tells whether its asserts hold.
BetweenOf(below, above, checked) ==
  Val(RSub(One, RAdd(above.v, below.v)), ~checked \/ below.asserted \/ above.asserted)

\* BETWEEN of multi_val_dispatch.
BetweenDispatch(buckets, minf, arg_path, comparands) ==
  LET lo == comparands[1]
      hi == comparands[2]
      t == CASE lo.type = "INT_ITEM" -> "longlong"
             [] lo.type = "REAL_ITEM" -> "double"
             [] OTHER -> "String"
      ordered == CASE lo.type = "INT_ITEM" -> lo.val <= hi.val
                   [] lo.type = "REAL_ITEM" -> RLeq(lo.val, hi.val)
                   [] OTHER -> stringcmp(lo.val, hi.val) <= 0
  IN IF lo.type \in {"INT_ITEM", "REAL_ITEM", "STRING_ITEM"}
     THEN BetweenOf(
            get_less_than_selectivity_typed(buckets, minf, arg_path, [t |-> t, v |-> lo.val]),
            get_greater_than_selectivity_typed(buckets, minf, arg_path, [t |-> t, v |-> hi.val]),
            ordered /\ Len(comparands) = 2)
     ELSE Val(err_selectivity_val, TRUE)

\* The loops of IN_LIST: the sum of the equality estimates of the first i
\* comparands, or <<>> when a boolean comparand is neither 0 nor 1.
\* sum += get_equal_to_selectivity(...), unless the loop has returned.
InAdd(before, eq, bad) ==
  IF before = <<>> \/ bad THEN <<>>
  ELSE <<Val(RAdd(before[1].v, eq.v), before[1].asserted \/ eq.asserted)>>

RECURSIVE InSum(_, _, _, _, _, _)
InSum(buckets, minf, arg_path, comparands, i, t) ==
  IF i = 0 THEN <<Val(Zero, FALSE)>>
  ELSE
    LET c == comparands[i]
        tv == [t |-> t, v |-> IF t = "bool" THEN val_bool(c) ELSE c.val]
    IN InAdd(InSum(buckets, minf, arg_path, comparands, i - 1, t),
             get_equal_to_selectivity_typed(buckets, minf, arg_path, tv),
             t = "bool" /\ c.val \notin {0, 1})

\* IN_LIST of multi_val_dispatch.
\* The end of IN_LIST: std::min(bucket->frequency, sum) when the bucket is
\* found, sum when it is not.
InBound(opt, sum) ==
  IF sum = <<>> THEN Val(err_selectivity_val, TRUE)
  ELSE IF opt /= <<>> THEN Val(RMin(opt[1].frequency, sum[1].v), sum[1].asserted)
  ELSE sum[1]

InListDispatch(buckets, minf, arg_path, comparands) ==
  LET type == comparands[1].type
      t == CASE type = "INT_ITEM" -> "longlong"
             [] type = "STRING_ITEM" -> "String"
             [] OTHER -> "bool"
  IN IF type \notin {"INT_ITEM", "STRING_ITEM", "FUNC_ITEM"} THEN Val(err_selectivity_val, TRUE)
     ELSE InBound(find_bucket(buckets, arg_path),
                  InSum(buckets, minf, arg_path, comparands, Len(comparands), t))

\* multi_val_dispatch(jflex, arg_path, op, comparands, comparand_count)
\* NOT_IN_LIST: get_not_eq_null_selectivity(path) - IN_LIST.
NotInOf(total, in_list) == Val(RSub(total, in_list.v), in_list.asserted)

RECURSIVE multi_val_dispatch(_, _, _, _, _)
multi_val_dispatch(buckets, minf, arg_path, op, comparands) ==
  CASE op = "BETWEEN" -> BetweenDispatch(buckets, minf, arg_path, comparands)
    [] op = "IN_LIST" -> InListDispatch(buckets, minf, arg_path, comparands)
    [] op = "NOT_IN_LIST" ->
         NotInOf(get_not_eq_null_selectivity(buckets, minf, arg_path),
                 multi_val_dispatch(buckets, minf, arg_path, "IN_LIST", comparands))
    [] OTHER -> Val(err_selectivity_val, TRUE)

(***************************************************************************)
(* get_selectivity.  A function item is [name, args]; an argument is a     *)
(* function item, a string literal [str] or a column.                      *)
(***************************************************************************)
\* get_json_func_path_item(func, &json_path_arg): err is the returned flag,
\* arg the optional value written to *json_path_arg.
get_json_func_path_item(func) ==
  LET innermost_func == IF func.name = "json_unquote" THEN func.args[1] ELSE func
      path_idx == CASE innermost_func.name = "json_extract" -> 1
                    [] innermost_func.name = "json_value" -> 1
                    [] innermost_func.name = "json_unquote" -> 0
                    [] OTHER -> -1
  IN IF path_idx = -1 THEN [err |-> TRUE, arg |-> <<>>]
     ELSE [err |-> FALSE, arg |-> <<innermost_func.args[path_idx + 1]>>]

MultiOperators == {"BETWEEN", "NOT_BETWEEN", "IN_LIST", "NOT_IN_LIST"}
NullOperators == {"IS_NULL", "IS_NOT_NULL"}

\* What one run of the body returns: the flag, whether *selectivity was
\* written and with what, whether an assert that does not hold was passed,
\* whether the path scan overran its buffer.
Outcome(fail, written, sel, asserted, overrun) ==
  [fail |-> fail, written |-> written, sel |-> sel, asserted |-> asserted, overrun |-> overrun]

\* The branch for comparand_count == 0 with json_value treated like the
\* other functions.
NullBranch_AlwaysExists(buckets, minf, func, op, arg_path) ==
  LET x == get_exists_selectivity(buckets, minf, arg_path)
  IN CASE op = "IS_NULL" -> [fail |-> FALSE, written |-> TRUE, sel |-> RSub(One, x),
                             asserted |-> FALSE, overrun |-> FALSE]
       [] op = "IS_NOT_NULL" -> [fail |-> FALSE, written |-> TRUE, sel |-> x,
                                 asserted |-> FALSE, overrun |-> FALSE]
       [] OTHER -> [fail |-> TRUE, written |-> FALSE, sel |-> Zero,
                    asserted |-> TRUE, overrun |-> FALSE]

\* The branch of get_selectivity for comparand_count == 0.
NullBranch(buckets, minf, func, op, arg_path) ==
  LET x == IF func.name = "json_value"
           THEN get_not_eq_null_selectivity(buckets, minf, arg_path)
           ELSE get_exists_selectivity(buckets, minf, arg_path)
  IN CASE op = "IS_NULL" -> Outcome(FALSE, TRUE, RSub(One, x), FALSE, FALSE)
       [] op = "IS_NOT_NULL" -> Outcome(FALSE, TRUE, x, FALSE, FALSE)
       [] OTHER -> Outcome(TRUE, FALSE, Zero, TRUE, FALSE)

\* *selectivity = <dispatch>; return false;
Written(d) == Outcome(FALSE, TRUE, d.v, d.asserted, FALSE)

\* The branch for a type-certain function and one constant comparand.
SingleBranch(buckets, minf, op, arg_path, comparand) ==
  LET tv == CASE comparand.type = "INT_ITEM" -> [t |-> "longlong", v |-> comparand.val]
              [] comparand.type = "REAL_ITEM" -> [t |-> "double", v |-> comparand.val]
              [] comparand.type = "STRING_ITEM" -> [t |-> "String", v |-> comparand.val]
              [] OTHER -> [t |-> "bool", v |-> val_bool(comparand)]
  IN IF \/ comparand.type \in {"INT_ITEM", "REAL_ITEM", "STRING_ITEM"}
        \/ comparand.type = "FUNC_ITEM" /\ comparand.val \in {0, 1}
     THEN Written(selectivity_getter_dispatch_typed(buckets, minf, arg_path, op, tv))
     ELSE Outcome(TRUE, FALSE, Zero, TRUE, FALSE)

\* The branches of get_selectivity, by comparand count and type certainty.
Branches(buckets, minf, func, comparands, op, raw_value_returned, arg_path) ==
  IF Len(comparands) = 0 THEN NullBranch(buckets, minf, func, op, arg_path)
  ELSE IF raw_value_returned /\ comparands[1].const
  THEN IF Len(comparands) > 1
       THEN Written(multi_val_dispatch(buckets, minf, arg_path, op, comparands))
       ELSE SingleBranch(buckets, minf, op, arg_path, comparands[1])
  ELSE Written(selectivity_getter_dispatch(buckets, minf, arg_path, op))

\* The run with the asserts at the top (top) and the encoder's doing (q).
Finish(r, top, q) == Outcome(r.fail, r.written, r.sel, top \/ q.asserted \/ r.asserted, q.overrun)

\* get_selectivity after build_histogram_query_string has come back with q.
AfterBuild(buckets, minf, func, comparands, op, top, raw_value_returned, q) ==
  IF q.err THEN Outcome(TRUE, FALSE, Zero, top \/ q.asserted, q.overrun)
  ELSE Finish(Branches(buckets, minf, func, comparands, op, raw_value_returned, q.out), top, q)

\* Json_flex::get_selectivity from the point where json_path_arg is read.
get_selectivity(buckets, minf, func, comparands, op, json_path_arg) ==
  LET comparand_count == Len(comparands)
      mixed == \E i \in 2..comparand_count : comparands[i - 1].type /= comparands[i].type
      top == \/ mixed
             \/ comparand_count > 1 /\ op \notin MultiOperators
             \/ comparand_count = 0 /\ op \notin NullOperators
      raw_value_returned == func.name \in {"json_unquote", "json_value"}
      ctype == IF comparand_count > 0 THEN comparands[1].type ELSE ""
  IN AfterBuild(buckets, minf, func, comparands, op, top, raw_value_returned,
                build_histogram_query_string(json_path_arg.str, ctype, raw_value_returned))

(***************************************************************************)
(* The histograms the calls run on: at most MaxBuckets buckets, each one   *)
(* of Buckets, with min_frequency the smallest frequency among them.       *)
(***************************************************************************)
K == <<"k">>
Kn == K \o NumSuffix
Ks == K \o StrSuffix
Kb == K \o BoolSuffix

Bucket(key_path, frequency, null_values, values_type, min_val, max_val, ndv, histogram) ==
  [key_path |-> key_path, frequency |-> frequency, null_values |-> null_values,
   min_val |-> min_val, max_val |-> max_val, ndv |-> ndv,
   values_type |-> values_type, histogram |-> histogram]

Single(value, frequency) == [value |-> value, frequency |-> frequency]
Equi(upper_bound, frequency, ndv) == [upper_bound |-> upper_bound, frequency |-> frequency, ndv |-> ndv]
Singleton(bucks, rest) == [buckets_type |-> "SINGLETON", single_bucks |-> bucks,
                           equi_bucks |-> <<>>, rest_mean_frequency |-> rest]
EquiHeight(bucks) == [buckets_type |-> "EQUI_HEIGHT", single_bucks |-> <<>>,
                      equi_bucks |-> bucks, rest_mean_frequency |-> <<>>]

Buckets == {
  Bucket(Kn, Half, Zero, "UNKNOWN", <<>>, <<>>, <<>>, <<>>),
  Bucket(Kn, Half, Half, "INT", <<0>>, <<3>>, <<>>, <<>>),
  Bucket(Kn, One, Zero, "INT", <<0>>, <<3>>, <<4>>, <<>>),
  Bucket(Kn, One, Zero, "INT", <<0>>, <<3>>, <<4>>,
         <<Singleton(<<Single(0, Rat(3, 4)), Single(1, Rat(1, 4))>>, <<>>)>>),
  Bucket(Kn, Half, Half, "INT", <<0>>, <<3>>, <<4>>,
         <<EquiHeight(<<Equi(1, Half, 2), Equi(3, Half, 2)>>)>>),
  Bucket(Kn, Half, Half, "INT", <<0>>, <<0>>, <<1>>, <<>>),
  Bucket(Kn, One, Zero, "FLOAT", <<Rat(1, 2)>>, <<Rat(5, 2)>>, <<2>>,
         <<Singleton(<<Single(Rat(1, 2), Half), Single(Rat(5, 2), Half)>>, <<>>)>>),
  Bucket(Kn, Half, Zero, "FLOAT", <<Rat(1, 2)>>, <<Rat(5, 2)>>, <<4>>,
         <<EquiHeight(<<Equi(Rat(3, 2), Half, 2), Equi(Rat(5, 2), Half, 2)>>)>>),
  Bucket(Ks, Half, Zero, "STRING", <<<<"b">>>>, <<<<"b">>>>, <<1>>, <<>>),
  Bucket(Ks, One, Zero, "STRING", <<<<"a">>>>, <<<<"c">>>>, <<3>>,
         <<Singleton(<<Single(<<"a">>, Half), Single(<<"b">>, Rat(1, 4))>>, <<Rat(1, 4)>>)>>),
  Bucket(Kb, Half, Half, "BOOL", <<FALSE>>, <<TRUE>>, <<2>>,
         <<Singleton(<<Single(FALSE, Rat(1, 4)), Single(TRUE, Rat(3, 4))>>, <<>>)>>),
  Bucket(Kb, Half, Zero, "BOOL", <<TRUE>>, <<TRUE>>, <<1>>, <<>>),
  Bucket(K, Half, Half, "UNKNOWN", <<>>, <<>>, <<>>, <<>>),
  Bucket(K, One, Zero, "INT", <<0>>, <<0>>, <<1>>, <<>>)
}

\* min_frequency starts at 1.0 and json_to_histogram lowers it to the
\* frequency of every bucket it reads.
RECURSIVE MinFrequency(_, _)
MinFrequency(buckets, i) ==
  IF i = 0 THEN One ELSE RMin(MinFrequency(buckets, i - 1), buckets[i].frequency)

Histograms == SeqsUpTo(Buckets, MaxBuckets)

(***************************************************************************)
(* The calls of get_selectivity.                                           *)
(***************************************************************************)
Col == [kind |-> "col"]
Lit(str) == [kind |-> "lit", str |-> str]
Fn(name, args) == [kind |-> "func", name |-> name, args |-> args]

SelPaths == {PathOfSteps(<<"key">>), PathOfSteps(<<"idx">>)}

SupportedFuncs ==
  UNION {{Fn("json_extract", <<Col, Lit(p)>>),
          Fn("json_value", <<Col, Lit(p)>>),
          Fn("json_unquote", <<Fn("json_extract", <<Col, Lit(p)>>)>>)} : p \in SelPaths}

UnsupportedFuncs ==
  {Fn("json_length", <<Col, Lit(PathOfSteps(<<"key">>))>>),
   Fn("json_unquote", <<Fn("json_length", <<Col, Lit(PathOfSteps(<<"key">>))>>)>>)}

Item(type, const, val) == [type |-> type, const |-> const, val |-> val]

Comparands ==
  [INT_ITEM |-> {Item("INT_ITEM", TRUE, v) : v \in {0, 1, 2}},
   REAL_ITEM |-> {Item("REAL_ITEM", TRUE, v) : v \in {Rat(1, 2), Rat(2, 1)}},
   STRING_ITEM |-> {Item("STRING_ITEM", TRUE, v) : v \in {<<"a">>, <<"b">>}},
   FUNC_ITEM |-> {Item("FUNC_ITEM", TRUE, v) : v \in {1, 2}},
   NULL_ITEM |-> {Item("NULL_ITEM", TRUE, 0)},
   FIELD_ITEM |-> {Item("FIELD_ITEM", FALSE, 0)}]

\* Comparand lists hold items of one type.
ComparandLists ==
  UNION {SeqsUpTo(Comparands[t], MaxComparands) : t \in ItemTypes}

(***************************************************************************)
(* The calls of build_histogram_query_string.                              *)
(***************************************************************************)
StepSeqs == SeqsUpTo(StepKinds, MaxSteps) \ {<<>>}
RawAlphabet == {"$", ".", "[", "]", "k"}
RawPaths == SeqsUpTo(RawAlphabet, MaxRawLen)

\* What a buffer overrun leaves behind the builder when the scan comes back.
Garbage == {<<>>, <<"?">>}

NoCall == [fn |-> "none"]
NoRet == [status |-> "none"]

\* One call of build_histogram_query_string.  A debug build (ndebug false)
\* aborts in assert(false); an overrun either crashes or returns with
\* whatever the scan picked up.
BuildQueryString(path, steps, ctype, certain) ==
  LET r == build_histogram_query_string(path, ctype, certain) IN
  /\ call' = [fn |-> "build_histogram_query_string", path |-> path, steps |-> steps,
              ctype |-> ctype, certain |-> certain]
  /\ \E ndebug \in BOOLEAN, crash \in BOOLEAN, g \in Garbage :
       ret' = IF r.overrun
              THEN IF crash THEN [status |-> "crash", out |-> <<>>]
                   ELSE [status |-> IF r.err THEN "error" ELSE "ok", out |-> r.out \o g]
              ELSE IF r.asserted /\ ~ndebug THEN [status |-> "abort", out |-> <<>>]
              ELSE [status |-> IF r.err THEN "error" ELSE "ok", out |-> r.out]
  /\ UNCHANGED <<m_buckets, min_frequency>>

EncodeWellFormed ==
  /\ call = NoCall
  /\ \E steps \in StepSeqs, ctype \in ItemTypes \cup {""}, certain \in BOOLEAN :
    BuildQueryString(PathOfSteps(steps), steps, ctype, certain)

EncodeRaw ==
  /\ call = NoCall
  /\ \E path \in RawPaths, ctype \in ItemTypes \cup {""}, certain \in BOOLEAN :
    BuildQueryString(path, <<>>, ctype, certain)

\* The caller takes the result; the histogram is ready for the next call.
Return ==
  /\ call /= NoCall
  /\ call' = NoCall
  /\ ret' = NoRet
  /\ UNCHANGED <<m_buckets, min_frequency>>

\* A freshly constructed histogram: no buckets, min_frequency = 1.0.
InitEnc ==
  /\ m_buckets = <<>>
  /\ min_frequency = One
  /\ call = NoCall
  /\ ret = NoRet

NextEnc == EncodeWellFormed \/ EncodeRaw \/ Return

SpecEnc == InitEnc /\ [][NextEnc]_vars

IsBuild == call.fn = "build_histogram_query_string"

(***************************************************************************)
(* C1: for every path made of '.key' and '[N]' steps the encoder emits     *)
(* each non-terminal step followed by "_obj." when the next step is an     *)
(* object access and by "_arr." when it is an array index, whatever the    *)
(* kind of the emitting step, and the terminal step with no such suffix.   *)
(***************************************************************************)
RECURSIVE ExpectedKeyPath(_)
ExpectedKeyPath(steps) ==
  IF Len(steps) = 1 THEN StepName(steps[1])
  ELSE StepName(steps[1])
       \o (IF steps[2] = "key" THEN <<"_", "o", "b", "j", ".">>
           ELSE <<"_", "a", "r", "r", ".">>)
       \o ExpectedKeyPath(Tail(steps))

C1_StepSeparators ==
  (IsBuild /\ call.steps /= <<>> /\ ret.status = "ok")
    => ret.out = ExpectedKeyPath(call.steps)
                 \o (IF call.certain /\ call.ctype /= "" THEN TypeSuffix(call.ctype)
                     ELSE <<>>)

(***************************************************************************)
(* C2: in a type-certain context with an integer, float, boolean or string *)
(* comparand the encoder appends exactly one of "_num", "_num", "_bool",   *)
(* "_str" to the encoded path; with no comparand or in a context that is   *)
(* not type-certain it appends nothing.                                    *)
(***************************************************************************)
ClaimedSuffix(ctype) ==
  CASE ctype = "INT_ITEM" -> <<"_", "n", "u", "m">>
    [] ctype = "REAL_ITEM" -> <<"_", "n", "u", "m">>
    [] ctype = "FUNC_ITEM" -> <<"_", "b", "o", "o", "l">>
    [] ctype = "STRING_ITEM" -> <<"_", "s", "t", "r">>

PathPart(path) == ScanPath(path, 2, <<>>)

C2_TypeSuffix ==
  (IsBuild /\ ~PathPart(call.path).overrun /\ ret.status \notin {"abort"})
    => /\ (call.certain /\ call.ctype \in SuffixedTypes)
            => /\ ret.status = "ok"
               /\ ret.out = PathPart(call.path).out \o ClaimedSuffix(call.ctype)
       /\ (~call.certain \/ call.ctype = "")
            => /\ ret.status = "ok"
               /\ ret.out = PathPart(call.path).out

C2_Witness ==
  /\ IsBuild /\ call.certain /\ call.ctype = "FUNC_ITEM" /\ call.steps = <<"key", "key">>
  /\ ret.status = "ok"
  /\ ret.out = <<"k", "_", "o", "b", "j", ".", "k", "_", "b", "o", "o", "l">>

(***************************************************************************)
(* C3: a path shorter than two characters, one that does not start with    *)
(* '$', or one with a '[' that is never closed makes the encoder fail with *)
(* an error result, without a read past the end of the path.               *)
(***************************************************************************)
UnclosedBracket(path) ==
  \E i \in 1..Len(path) : path[i] = "[" /\ FirstOf(path, i + 1, {"]"}) = 0

Malformed(path) ==
  \/ Len(path) < 2
  \/ path[1] /= "$"
  \/ UnclosedBracket(path)

C3_MalformedPathFails ==
  (IsBuild /\ Malformed(call.path))
    => /\ ret.status = "error"
       /\ ~PathPart(call.path).overrun

(***************************************************************************)
(* The calls of get_selectivity on a loaded histogram.                     *)
(***************************************************************************)
Crashed == [status |-> "crash", fail |-> FALSE, written |-> FALSE, sel |-> Zero, asserted |-> FALSE]
Aborted == [status |-> "abort", fail |-> FALSE, written |-> FALSE, sel |-> Zero, asserted |-> TRUE]

\* What the caller can see of a run that came to result r: a debug build
\* aborts in an assert that does not hold, a release build goes on (asserted
\* records that it did); a run that read past the path's buffer may crash.
Visible(r) ==
  {[status |-> "returned", fail |-> r.fail, written |-> r.written, sel |-> r.sel,
    asserted |-> r.asserted]}
  \cup (IF r.asserted THEN {Aborted} ELSE {})
  \cup (IF r.overrun THEN {Crashed} ELSE {})

\* One call with a function get_json_func_path_item accepts.
GetSelectivity ==
  /\ call = NoCall
  /\ \E func \in SupportedFuncs, comparands \in ComparandLists, op \in Operators :
    /\ call' = [fn |-> "get_selectivity", func |-> func, comparands |-> comparands, op |-> op]
    /\ ret' \in Visible(get_selectivity(m_buckets, min_frequency, func, comparands, op,
                                        get_json_func_path_item(func).arg[1]))
    /\ UNCHANGED <<m_buckets, min_frequency>>

\* One call with a function get_json_func_path_item rejects: its flag is
\* ignored and json_path_arg is read uninitialised, so the call crashes or
\* goes on with whatever item the pointer happens to address (wild).
GetSelectivityUnsupported ==
  /\ call = NoCall
  /\ \E func \in UnsupportedFuncs, comparands \in ComparandLists, op \in Operators :
    /\ get_json_func_path_item(func).err
    /\ call' = [fn |-> "get_selectivity", func |-> func, comparands |-> comparands, op |-> op]
    /\ \/ ret' = Crashed
       \/ \E wild \in {Lit(p) : p \in SelPaths} :
            ret' \in Visible(get_selectivity(m_buckets, min_frequency, func, comparands, op, wild))
    /\ UNCHANGED <<m_buckets, min_frequency>>

\* A histogram after json_to_histogram.
Init ==
  /\ m_buckets \in Histograms
  /\ min_frequency = MinFrequency(m_buckets, Len(m_buckets))
  /\ call = NoCall
  /\ ret = NoRet

Next == GetSelectivity \/ GetSelectivityUnsupported \/ Return

Spec == Init /\ [][Next]_vars

IsSel == call.fn = "get_selectivity"
Returned == IsSel /\ ret.status = "returned"

\* The call in progress, seen by the claims.
Supported == IsSel /\ call.func \in SupportedFuncs
RawValueReturned == call.func.name \in {"json_unquote", "json_value"}
TypeCertain == RawValueReturned /\ call.comparands /= <<>> /\ call.comparands[1].const

\* The path the call looks up and the bucket stored under it.
CallPath ==
  build_histogram_query_string(
    get_json_func_path_item(call.func).arg[1].str,
    IF call.comparands /= <<>> THEN call.comparands[1].type ELSE "",
    RawValueReturned).out
CallBucket == find_bucket(m_buckets, CallPath)

\* The result of the same call with operator op.
SameCall(op) ==
  get_selectivity(m_buckets, min_frequency, call.func, call.comparands, op,
                  get_json_func_path_item(call.func).arg[1])

(***************************************************************************)
(* C4: get_selectivity called with a function whose innermost function is  *)
(* none of json_extract, json_unquote, json_value returns the failure flag *)
(* and writes no selectivity.                                              *)
(***************************************************************************)
C4_UnsupportedFunctionFails ==
  (IsSel /\ call.func \in UnsupportedFuncs)
    => /\ ret.status = "returned"
       /\ ret.fail
       /\ ~ret.written

(***************************************************************************)
(* C5: for every operator and comparand list, get_selectivity never        *)
(* returns success with the error sentinel err_selectivity_val as the      *)
(* written selectivity: what the dispatchers do not handle is a failure.   *)
(***************************************************************************)
C5_NoSentinelOnSuccess ==
  (Supported /\ Returned /\ ~ret.fail)
    => ret.sel /= err_selectivity_val

(***************************************************************************)
(* C6: on a well-formed histogram, for every supported predicate (one that *)
(* passes every assert and for which the call succeeds), the selectivity   *)
(* get_selectivity writes lies in [0,1].                                   *)
(***************************************************************************)
C6_SelectivityInUnitInterval ==
  (Supported /\ Returned /\ ~ret.fail /\ ~ret.asserted)
    => /\ ret.sel.e = 0
       /\ RLeq(Zero, ret.sel)
       /\ RLeq(ret.sel, One)

EqSum ==
  InSum(m_buckets, min_frequency, CallPath, call.comparands, Len(call.comparands),
        CASE call.comparands[1].type = "INT_ITEM" -> "longlong"
          [] call.comparands[1].type = "STRING_ITEM" -> "String"
          [] OTHER -> "bool")

C8_InIsMinOfBaseAndSum ==
  (Supported /\ Returned /\ ~ret.asserted /\ TypeCertain /\ Len(call.comparands) > 1
     /\ call.op \in {"IN_LIST", "NOT_IN_LIST"} /\ CallBucket /= <<>>)
    => LET base == base_freq(CallBucket[1])
           in_list == RMin(base, EqSum[1].v)
       IN /\ call.op = "IN_LIST" => ret.sel = in_list
          /\ call.op = "NOT_IN_LIST" => ret.sel = RSub(base, in_list)

(***************************************************************************)
(* C9: in a type-certain context with a constant comparand x,              *)
(* get_selectivity with operator IN and the list [x] succeeds and writes   *)
(* the value get_selectivity writes for operator EQ and comparand x.       *)
(***************************************************************************)
C9_InOfOneIsEq ==
  (Supported /\ TypeCertain /\ call.op = "IN_LIST" /\ Len(call.comparands) = 1
     /\ ~SameCall("EQUALS_TO").fail)
    => /\ Returned
       /\ ~ret.fail
       /\ ret.written
       /\ ret.sel = SameCall("EQUALS_TO").sel

(***************************************************************************)
(* C10: when no bucket has the encoded path, every query returns           *)
(* min_frequency * c with c = 0.1 for equality, 0.3 for LT/LE/GT/GE, 0.8   *)
(* for IS NOT NULL and 0.2 for IS NULL, for every comparand type and every *)
(* enclosing function; an empty bucket array has min_frequency = 1.0.      *)
(***************************************************************************)
Inequalities == {"LESS_THAN", "LESS_THAN_OR_EQUAL", "GREATER_THAN", "GREATER_THAN_OR_EQUAL"}

\* A query that succeeds, passes every assert and finds no bucket.
FallsBack ==
  /\ Supported /\ Returned /\ ~ret.fail /\ ~ret.asserted
  /\ Len(call.comparands) <= 1
  /\ CallBucket = <<>>

NotNullFallback ==
  IF call.func.name = "json_value" THEN RMul(min_frequency, EightTenths) ELSE min_frequency

TypedValue(item) ==
  [t |-> CASE item.type = "INT_ITEM" -> "longlong"
           [] item.type = "REAL_ITEM" -> "double"
           [] OTHER -> "String",
   v |-> item.val]

InOrder(a, b) ==
  CASE a.type = "INT_ITEM" -> a.val <= b.val
    [] a.type = "REAL_ITEM" -> RLeq(a.val, b.val)
    [] OTHER -> stringcmp(a.val, b.val) <= 0

IsBetween ==
  /\ Supported /\ Returned /\ TypeCertain /\ call.op = "BETWEEN"
  /\ Len(call.comparands) = 2
  /\ call.comparands[1].type \in {"INT_ITEM", "REAL_ITEM", "STRING_ITEM"}
  /\ InOrder(call.comparands[1], call.comparands[2])

C11_BetweenIsOneMinusLtMinusGt ==
  IsBetween =>
    LET lo == lookup_bucket_typed(m_buckets, min_frequency, CallPath, TypedValue(call.comparands[1]))
        hi == lookup_bucket_typed(m_buckets, min_frequency, CallPath, TypedValue(call.comparands[2]))
    IN /\ ~ret.fail /\ ret.written
       /\ ret.sel = RSub(RSub(One, lo.lt), hi.gt)

C11_Witness ==
  /\ IsBetween
  /\ call.comparands = <<Item("REAL_ITEM", TRUE, Rat(1, 2)), Item("REAL_ITEM", TRUE, Rat(2, 1))>>
  /\ CallBucket /= <<>> /\ CallBucket[1].values_type = "FLOAT"
  /\ CallBucket[1].histogram /= <<>> /\ CallBucket[1].histogram[1].buckets_type = "SINGLETON"
  /\ ret.sel = Half

(***************************************************************************)
(* C12: IS_NULL returns 1 - X and IS_NOT_NULL returns X, where X is        *)
(* not_eq_null(path) when the outer function is json_value and             *)
(* exists(path) otherwise; the two estimates for the same function and     *)
(* path sum to at most 1.                                                  *)
(***************************************************************************)
\* not_eq_null(path) and exists(path), from the bucket of the call's path.
NotEqNull ==
  IF CallBucket /= <<>>
  THEN RMul(CallBucket[1].frequency, RSub(One, CallBucket[1].null_values))
  ELSE RMul(min_frequency, Rat(8, 10))

Exists == IF CallBucket /= <<>> THEN CallBucket[1].frequency ELSE min_frequency

IsNullTest ==
  /\ Supported /\ Returned /\ call.comparands = <<>>
  /\ call.op \in {"IS_NULL", "IS_NOT_NULL"}

BucketTypeOf(type) ==
  CASE type = "INT_ITEM" -> "INT"
    [] type = "REAL_ITEM" -> "FLOAT"
    [] type = "STRING_ITEM" -> "STRING"
    [] OTHER -> "BOOL"

\* A typed LESS_THAN or GREATER_THAN on a bucket of the comparand's type
\* that holds a singleton sub-histogram.
IsSingletonLookup ==
  /\ Supported /\ Returned /\ ~ret.asserted /\ TypeCertain
  /\ Len(call.comparands) = 1
  /\ call.comparands[1].type \in {"INT_ITEM", "REAL_ITEM", "STRING_ITEM"}
  /\ call.op \in {"LESS_THAN", "GREATER_THAN"}
  /\ CallBucket /= <<>>
  /\ CallBucket[1].values_type = BucketTypeOf(call.comparands[1].type)
  /\ CallBucket[1].histogram /= <<>>
  /\ CallBucket[1].histogram[1].buckets_type = "SINGLETON"

C13_SingletonMonotone ==
  IsSingletonLookup =>
    \A w \in Comparands[call.comparands[1].type] :
      InOrder(call.comparands[1], w) =>
        LET r == lookup_bucket_typed(m_buckets, min_frequency, CallPath, TypedValue(w))
        IN /\ call.op = "LESS_THAN" => RLeq(ret.sel, r.lt)
           /\ call.op = "GREATER_THAN" => RLeq(r.gt, ret.sel)

(***************************************************************************)
(* The serialized form.  A JSON value (Json_dom) is a record of its        *)
(* json_type() t and its value v: a number, a boolean, a text, the         *)
(* sequence of the elements of an array, the members of an object as a     *)
(* record.                                                                 *)
(***************************************************************************)
Json(t, v) == [t |-> t, v |-> v]

\* What the error context was told: report_missing_attribute(name) and
\* report_node(node, message).
MissingAttribute(name) == [kind |-> "missing_attribute", name |-> name]
ReportNode(node, message) == [kind |-> "node", node |-> node, message |-> message]

\* Histogram::extract_json_dom_value(json_dom, &out, context) for an out of
\* C++ type T: a value of the matching JSON type is copied out, any other
\* node is reported and the flag raised.
extract_json_dom_value(json_dom, T) ==
  LET fits == CASE T \in {"String", "BucketString"} -> json_dom.t = "J_OPAQUE"
                [] T = "double" -> json_dom.t = "J_DOUBLE"
                [] T = "longlong" -> json_dom.t \in {"J_INT", "J_UINT"}
                [] T = "bool" -> json_dom.t = "J_BOOLEAN"
  IN IF fits THEN [err |-> FALSE, out |-> json_dom.v, reported |-> <<>>]
     ELSE [err |-> TRUE, out |-> json_dom.v,
           reported |-> <<ReportNode(json_dom, "JSON_WRONG_ATTRIBUTE_TYPE")>>]

\* The C++ type of the values of a sub-histogram, by the bucket's value type.
GramType(values_type) ==
  CASE values_type = "INT" -> "longlong"
    [] values_type = "FLOAT" -> "double"
    [] values_type = "BOOL" -> "bool"
    [] values_type = "STRING" -> "BucketString"

\* JsonGram<T>::create_singlegram and create_equigram.
create_singlegram == Singleton(<<>>, <<>>)
create_equigram == EquiHeight(<<>>)

\* What json_to_json_gram leaves: the flag, the sub-histogram as far as it
\* was filled, the reports, whether an assert that does not hold was passed
\* and whether an entry was read past its last element.
GramRead(err, gram, reported, asserted, overrun) ==
  [err |-> err, gram |-> gram, reported |-> reported, asserted |-> asserted,
   overrun |-> overrun]

\* push_back of one entry on the sub-histogram.
GramPush(gram, value, frequency, ndv) ==
  IF gram.buckets_type = "SINGLETON"
  THEN [gram EXCEPT !.single_bucks = Append(@, Single(value, frequency))]
  ELSE [gram EXCEPT !.equi_bucks = Append(@, Equi(value, frequency, ndv))]

\* The body of the loop of json_to_json_gram for an entry that is an array
\* of at least the elements read: err and reports of the first extraction
\* that fails, else the entry pushed.
GramEntry(gram, bucket, T) ==
  LET value == extract_json_dom_value(bucket[1], T)
      frequency == extract_json_dom_value(bucket[2], "double")
      ndv == IF gram.buckets_type = "SINGLETON" THEN [err |-> FALSE, out |-> 0, reported |-> <<>>]
             ELSE extract_json_dom_value(bucket[3], "longlong")
  IN IF value.err THEN [err |-> TRUE, gram |-> gram, reported |-> value.reported]
     ELSE IF frequency.err THEN [err |-> TRUE, gram |-> gram, reported |-> frequency.reported]
     ELSE IF ndv.err THEN [err |-> TRUE, gram |-> gram, reported |-> ndv.reported]
     ELSE [err |-> FALSE, gram |-> GramPush(gram, value.out, frequency.out, ndv.out),
           reported |-> <<>>]

\* JsonGram<T>::json_to_json_gram(buckets_array, histogram, context) from
\* entry i on.
RECURSIVE GramFrom(_, _, _, _, _)

\* One entry that is an array: assert(bucket->size() == want), then the
\* elements are read by position.
GramNext(entries, i, gram, T, asserted, want) ==
  LET size == Len(entries[i].v)
      e == GramEntry(gram, entries[i].v, T)
  IN IF size < want THEN GramRead(FALSE, gram, <<>>, TRUE, TRUE)
     ELSE IF e.err THEN GramRead(TRUE, gram, e.reported, asserted \/ size /= want, FALSE)
     ELSE GramFrom(entries, i + 1, e.gram, T, asserted \/ size /= want)

GramFrom(entries, i, gram, T, asserted) ==
  IF i > Len(entries) THEN GramRead(FALSE, gram, <<>>, asserted, FALSE)
  ELSE IF entries[i].t /= "J_ARRAY"
  THEN GramRead(TRUE, gram, <<ReportNode(entries[i], "JSON_WRONG_ATTRIBUTE_TYPE")>>,
                asserted, FALSE)
  ELSE GramNext(entries, i, gram, T, asserted,
                IF gram.buckets_type = "SINGLETON" THEN 2 ELSE 3)

json_to_json_gram(gram, buckets_array, T) == GramFrom(buckets_array, 1, gram, T, FALSE)

(***************************************************************************)
(* Json_flex::json_to_histogram.  The members the base class reads are     *)
(* taken to be in order; allocation does not fail.                         *)
(***************************************************************************)
JSON_BUCKET_TOTAL_MEMBER_COUNT == 6
JSON_BUCKET_OPTIONAL_MEMBER_COUNT == 3
allowed_size_wo_opts == JSON_BUCKET_TOTAL_MEMBER_COUNT - JSON_BUCKET_OPTIONAL_MEMBER_COUNT

\* min_val and max_val as read from a bucket: the flag, the value type, the
\* two optionals, the reports and whether assert(false) was passed.
MinMax(err, values_type, min_val, max_val, reported, asserted) ==
  [err |-> err, values_type |-> values_type, min_val |-> min_val, max_val |-> max_val,
   reported |-> reported, asserted |-> asserted]

NoMinMax == MinMax(FALSE, "UNKNOWN", <<>>, <<>>, <<>>, FALSE)

\* The two extractions of one branch of the type switch.
MinMaxOf(values_type, min_val, max_val) ==
  IF min_val.err THEN MinMax(TRUE, "UNKNOWN", <<>>, <<>>, min_val.reported, FALSE)
  ELSE IF max_val.err THEN MinMax(TRUE, "UNKNOWN", <<>>, <<>>, max_val.reported, FALSE)
  ELSE MinMax(FALSE, values_type, <<min_val.out>>, <<max_val.out>>, <<>>, FALSE)

\* GET FOURTH BUCKET ITEM: min_val, GET FIFTH BUCKET ITEM: max_val.
ReadMinMax(bucket_dom) ==
  LET min_val_dom == bucket_dom.v[4]
      max_val_dom == bucket_dom.v[5]
      wrong == <<ReportNode(bucket_dom, "JSON_WRONG_ATTRIBUTE_TYPE")>>
  IN IF min_val_dom.t /= max_val_dom.t THEN MinMax(TRUE, "UNKNOWN", <<>>, <<>>, wrong, FALSE)
     ELSE CASE min_val_dom.t = "J_DOUBLE" ->
                 MinMaxOf("FLOAT", extract_json_dom_value(min_val_dom, "double"),
                          extract_json_dom_value(max_val_dom, "double"))
            [] min_val_dom.t = "J_BOOLEAN" ->
                 MinMaxOf("BOOL", extract_json_dom_value(min_val_dom, "bool"),
                          extract_json_dom_value(max_val_dom, "bool"))
            [] min_val_dom.t \in {"J_INT", "J_UINT"} ->
                 MinMaxOf("INT", extract_json_dom_value(min_val_dom, "longlong"),
                          extract_json_dom_value(max_val_dom, "longlong"))
            [] min_val_dom.t \in {"J_STRING", "J_OPAQUE"} ->
                 MinMaxOf("STRING", extract_json_dom_value(min_val_dom, "String"),
                          extract_json_dom_value(max_val_dom, "String"))
            [] OTHER -> MinMax(TRUE, "UNKNOWN", <<>>, <<>>, wrong, TRUE)

\* The sub-histogram as read from a bucket: the flag, the optional
\* sub-histogram, the reports, whether an assert that does not hold was
\* passed, and whether a node was used as a type it does not have (ub).
GramStage(err, histogram, reported, asserted, ub) ==
  [err |-> err, histogram |-> histogram, reported |-> reported, asserted |-> asserted,
   ub |-> ub]

NoGram == GramStage(FALSE, <<>>, <<>>, FALSE, FALSE)

\* The rest_frequency member, when there is one, set on what
\* json_to_json_gram left; the flag json_to_json_gram returned is dropped.
WithRestFrequency(histogram_object, g) ==
  IF "rest_frequency" \in DOMAIN histogram_object
  THEN GramStage(FALSE,
                 <<[g.gram EXCEPT !.rest_mean_frequency = <<histogram_object.rest_frequency.v>>]>>,
                 g.reported,
                 g.asserted \/ histogram_object.rest_frequency.t /= "J_DOUBLE",
                 g.overrun \/ histogram_object.rest_frequency.t /= "J_DOUBLE")
  ELSE GramStage(FALSE, <<g.gram>>, g.reported, g.asserted, g.overrun)

\* GET SEVENTH BUCKET: JsonGram.
ReadGram(bucket_dom, values_type) ==
  LET histogram_object_dom == bucket_dom.v[7]
      histogram_object == histogram_object_dom.v
  IN IF histogram_object_dom.t /= "J_OBJECT"
     THEN GramStage(FALSE, <<>>, <<>>, values_type = "UNKNOWN", TRUE)
     ELSE IF "type" \notin DOMAIN histogram_object
     THEN GramStage(TRUE, <<>>, <<MissingAttribute("type")>>, values_type = "UNKNOWN", FALSE)
     ELSE IF "buckets" \notin DOMAIN histogram_object
     THEN GramStage(TRUE, <<>>, <<MissingAttribute("buckets")>>, values_type = "UNKNOWN", FALSE)
     ELSE IF histogram_object.type.t /= "J_STRING" \/ histogram_object.buckets.t /= "J_ARRAY"
     THEN GramStage(FALSE, <<>>, <<>>, values_type = "UNKNOWN", TRUE)
     ELSE IF values_type = "UNKNOWN"
     THEN GramStage(TRUE, <<>>, <<ReportNode(bucket_dom, "JSON_WRONG_ATTRIBUTE_TYPE")>>,
                    TRUE, FALSE)
     ELSE LET known == histogram_object.type.v \in {"singleton", "equi-height"}
              g == json_to_json_gram(IF histogram_object.type.v = "singleton"
                                     THEN create_singlegram ELSE create_equigram,
                                     histogram_object.buckets.v, GramType(values_type))
          IN WithRestFrequency(histogram_object,
                               [g EXCEPT !.asserted = @ \/ ~known])

\* What reading one element of the buckets array comes to: the flag, the
\* bucket to store (an optional), min_frequency, the reports, the asserts
\* passed and the undefined uses of a node.
BucketRead(err, bucket, minf, reported, asserted, ub) ==
  [err |-> err, bucket |-> bucket, minf |-> minf, reported |-> reported,
   asserted |-> asserted, ub |-> ub]

\* STORE BUCKET IN HISTOGRAM, after the sub-histogram stage.
StoreBucket(minf, b, g) ==
  IF g.err \/ g.ub THEN BucketRead(g.err, <<>>, minf, g.reported, g.asserted, g.ub)
  ELSE BucketRead(FALSE, <<[b EXCEPT !.histogram = g.histogram]>>, minf, g.reported,
                  g.asserted, FALSE)

\* GET SIXTH BUCKET: NDV, then the sub-histogram.
ReadNdv(bucket_dom, minf, b, ndv) ==
  IF ndv.err THEN BucketRead(TRUE, <<>>, minf, ndv.reported, FALSE, FALSE)
  ELSE StoreBucket(minf, [b EXCEPT !.ndv = <<ndv.out>>],
                   IF Len(bucket_dom.v) >= allowed_size_wo_opts + 4
                   THEN ReadGram(bucket_dom, b.values_type) ELSE NoGram)

\* The optional members after min_val and max_val were read as mm.
ReadOptional(bucket_dom, minf, b, mm) ==
  IF mm.err THEN BucketRead(TRUE, <<>>, minf, mm.reported, mm.asserted, FALSE)
  ELSE IF Len(bucket_dom.v) >= allowed_size_wo_opts + 3
  THEN ReadNdv(bucket_dom, minf,
               [b EXCEPT !.values_type = mm.values_type, !.min_val = mm.min_val,
                         !.max_val = mm.max_val],
               extract_json_dom_value(bucket_dom.v[6], "longlong"))
  ELSE BucketRead(FALSE,
                  <<[b EXCEPT !.values_type = mm.values_type, !.min_val = mm.min_val,
                              !.max_val = mm.max_val]>>,
                  minf, <<>>, FALSE, FALSE)

\* The three members every bucket has; min_frequency is lowered as soon as
\* the frequency was read.
ReadFixed(bucket_dom, minf, key_path, frequency, null_values) ==
  IF key_path.err THEN BucketRead(TRUE, <<>>, minf, key_path.reported, FALSE, FALSE)
  ELSE IF frequency.err THEN BucketRead(TRUE, <<>>, minf, frequency.reported, FALSE, FALSE)
  ELSE IF null_values.err
  THEN BucketRead(TRUE, <<>>, RMin(minf, frequency.out), null_values.reported, FALSE, FALSE)
  ELSE ReadOptional(bucket_dom, RMin(minf, frequency.out),
                    Bucket(key_path.out, frequency.out, null_values.out, "UNKNOWN",
                           <<>>, <<>>, <<>>, <<>>),
                    IF Len(bucket_dom.v) >= allowed_size_wo_opts + 2
                    THEN ReadMinMax(bucket_dom) ELSE NoMinMax)

\* The body of the loop of json_to_histogram for an element that is an array.
ReadBucket(bucket_dom, minf) ==
  IF Len(bucket_dom.v) < allowed_size_wo_opts
  THEN BucketRead(TRUE, <<>>, minf, <<ReportNode(bucket_dom, "JSON_WRONG_BUCKET_TYPE_N")>>,
                  FALSE, FALSE)
  ELSE ReadFixed(bucket_dom, minf, extract_json_dom_value(bucket_dom.v[1], "String"),
                 extract_json_dom_value(bucket_dom.v[2], "double"),
                 extract_json_dom_value(bucket_dom.v[3], "double"))

\* What json_to_histogram leaves: the returned flag, the histogram's fields,
\* the reports in the error context, asserts passed, undefined uses.
Loaded(fail, buckets, minf, reported, asserted, ub) ==
  [fail |-> fail, m_buckets |-> buckets, min_frequency |-> minf, reported |-> reported,
   asserted |-> asserted, overrun |-> ub]

RECURSIVE LoadFrom(_, _, _, _, _, _)

\* The end of one turn of the loop: return true on the flag, else push_back.
LoadStep(buckets, i, hist, reported, asserted, r) ==
  IF r.err \/ r.ub
  THEN Loaded(r.err, hist, r.minf, reported \o r.reported, asserted \/ r.asserted, r.ub)
  ELSE LoadFrom(buckets, i + 1, Append(hist, r.bucket[1]), r.minf, reported \o r.reported,
                asserted \/ r.asserted)

\* COPY BUCKET VALUES from element i on.
LoadFrom(buckets, i, hist, minf, reported, asserted) ==
  IF i > Len(buckets) THEN Loaded(FALSE, hist, minf, reported, asserted, FALSE)
  ELSE IF buckets[i].t /= "J_ARRAY"
  THEN Loaded(TRUE, hist, minf,
              reported \o <<ReportNode(buckets[i], "JSON_WRONG_ATTRIBUTE_TYPE")>>,
              asserted, FALSE)
  ELSE LoadStep(buckets, i, hist, reported, asserted, ReadBucket(buckets[i], minf))

\* Json_flex::json_to_histogram(json_object, context) on a histogram that
\* holds buckets hist and min_frequency minf.
json_to_histogram(json_object, hist, minf) ==
  IF "buckets" \notin DOMAIN json_object.v
  THEN Loaded(TRUE, hist, minf, <<MissingAttribute("buckets")>>, FALSE, FALSE)
  ELSE IF json_object.v.buckets.t /= "J_ARRAY"
  THEN Loaded(TRUE, hist, minf,
              <<ReportNode(json_object.v.buckets, "JSON_WRONG_ATTRIBUTE_TYPE")>>, FALSE, FALSE)
  ELSE LoadFrom(json_object.v.buckets.v, 1, hist, minf, <<>>, FALSE)

(***************************************************************************)
(* Json_flex::histogram_to_json: the buckets member of the object it       *)
(* fills; the members the base class adds are left out.                    *)
(***************************************************************************)
\* The node add_value_json_bucket appends for a value of C++ type T.
add_value_json_bucket(T, value) ==
  CASE T \in {"String", "BucketString"} -> Json("J_OPAQUE", value)
    [] T = "double" -> Json("J_DOUBLE", value)
    [] T = "longlong" -> Json("J_INT", value)
    [] T = "bool" -> Json("J_BOOLEAN", value)

\* One entry of a sub-histogram as populate_json_array writes it.
SingleEntry(T, bucket) ==
  Json("J_ARRAY", <<add_value_json_bucket(T, bucket.value),
           add_value_json_bucket("double", bucket.frequency)>>)

EquiEntry(T, bucket) ==
  Json("J_ARRAY", <<add_value_json_bucket(T, bucket.upper_bound),
           add_value_json_bucket("double", bucket.frequency),
           add_value_json_bucket("longlong", bucket.ndv)>>)

\* Equi-height entries without their ndv.
populate_json_array_NoNdv(gram, T) ==
  IF gram.buckets_type = "SINGLETON"
  THEN [i \in 1..Len(gram.single_bucks) |-> SingleEntry(T, gram.single_bucks[i])]
  ELSE [i \in 1..Len(gram.equi_bucks) |->
          Json("J_ARRAY", <<add_value_json_bucket(T, gram.equi_bucks[i].upper_bound),
                   add_value_json_bucket("double", gram.equi_bucks[i].frequency)>>)]

\* JsonGram<T>::populate_json_array(buckets_array): the elements appended.
populate_json_array(gram, T) ==
  IF gram.buckets_type = "SINGLETON"
  THEN [i \in 1..Len(gram.single_bucks) |-> SingleEntry(T, gram.single_bucks[i])]
  ELSE [i \in 1..Len(gram.equi_bucks) |-> EquiEntry(T, gram.equi_bucks[i])]

\* get_bucket_type_str()
get_bucket_type_str(gram) ==
  IF gram.buckets_type = "SINGLETON" THEN "singleton" ELSE "equi-height"

\* The object written for a sub-histogram: type, buckets and, when
\* rest_mean_frequency is set, rest_frequency.
GramObject(gram, T) ==
  IF gram.rest_mean_frequency /= <<>>
  THEN Json("J_OBJECT", [type |-> Json("J_STRING", get_bucket_type_str(gram)),
                buckets |-> Json("J_ARRAY", populate_json_array(gram, T)),
                rest_frequency |-> Json("J_DOUBLE", gram.rest_mean_frequency[1])])
  ELSE Json("J_OBJECT", [type |-> Json("J_STRING", get_bucket_type_str(gram)),
                buckets |-> Json("J_ARRAY", populate_json_array(gram, T))])

\* Json_flex::create_json_bucket(bucket, json_bucket): the elements of the
\* array it fills.
create_json_bucket(bucket) ==
  LET T == GramType(bucket.values_type)
      fixed == <<add_value_json_bucket("String", bucket.key_path),
                 add_value_json_bucket("double", bucket.frequency),
                 add_value_json_bucket("double", bucket.null_values)>>
  IN IF bucket.values_type = "UNKNOWN" THEN fixed
     ELSE fixed
          \o <<add_value_json_bucket(T, bucket.min_val[1]),
               add_value_json_bucket(T, bucket.max_val[1])>>
          \o (IF bucket.ndv = <<>> THEN <<>>
              ELSE <<add_value_json_bucket("longlong", bucket.ndv[1])>>
                   \o (IF bucket.histogram = <<>> THEN <<>>
                       ELSE <<GramObject(bucket.histogram[1], T)>>))

\* Json_flex::histogram_to_json(json_object) on the buckets hist.
histogram_to_json(hist) ==
  Json("J_OBJECT",
       [buckets |-> Json("J_ARRAY",
                         [i \in 1..Len(hist) |-> Json("J_ARRAY", create_json_bucket(hist[i]))])])

(***************************************************************************)
(* Json_flex::clone and the copy constructor it runs.  Allocation does not *)
(* fail.                                                                   *)
(***************************************************************************)
\* JsonGram<T>::duplicate_onto(mem_root): copy_struct makes an empty
\* sub-histogram of the same kind, the entries are copied onto it; only the
\* specialisation for BucketString sets rest_mean_frequency on the copy.
duplicate_onto(gram, T) ==
  LET dupe == IF gram.buckets_type = "SINGLETON" THEN create_singlegram ELSE create_equigram
      filled == [dupe EXCEPT !.single_bucks = gram.single_bucks,
                             !.equi_bucks = gram.equi_bucks]
  IN IF T = "BucketString"
     THEN [filled EXCEPT !.rest_mean_frequency = gram.rest_mean_frequency]
     ELSE filled

\* The asserts of the copy constructor on one bucket and its copy.
CopyAsserts(bucket) ==
  IF bucket.values_type /= "UNKNOWN"
  THEN /\ bucket.min_val /= <<>> /\ bucket.max_val /= <<>>
       /\ (bucket.histogram /= <<>> => bucket.ndv /= <<>>)
  ELSE /\ bucket.min_val = <<>> /\ bucket.max_val = <<>>
       /\ bucket.ndv = <<>> /\ bucket.histogram = <<>>

\* The copy of one bucket pushed on the clone.
CopyBucket(bucket) ==
  IF bucket.histogram = <<>> THEN bucket
  ELSE [bucket EXCEPT !.histogram =
          <<duplicate_onto(bucket.histogram[1], GramType(bucket.values_type))>>]

\* The loop of the copy constructor from bucket i on: error is *error,
\* asserted whether an assert that does not hold was passed.
RECURSIVE CopyFrom(_, _, _, _)
CopyFrom(other, i, hist, asserted) ==
  IF i > Len(other) THEN [error |-> FALSE, m_buckets |-> hist, asserted |-> asserted]
  ELSE IF other[i].histogram /= <<>> /\ other[i].values_type = "UNKNOWN"
  THEN [error |-> TRUE, m_buckets |-> hist, asserted |-> TRUE]
  ELSE CopyFrom(other, i + 1, Append(hist, CopyBucket(other[i])),
                asserted \/ ~CopyAsserts(other[i]))

\* Json_flex::clone(mem_root): the clone as an optional (nullptr on error)
\* with its buckets and min_frequency.
clone(hist, minf) ==
  LET copy == CopyFrom(hist, 1, <<>>, FALSE)
  IN [histogram |-> IF copy.error THEN <<>>
                    ELSE <<[m_buckets |-> copy.m_buckets, min_frequency |-> minf]>>,
      asserted |-> copy.asserted]

(***************************************************************************)
(* Json_flex::get_ndv.                                                     *)
(***************************************************************************)
\* The ndv of the bucket at path, 0 when there is no such bucket or it has
\* no ndv.
NdvAt(buckets, path) ==
  LET bucketOpt == find_bucket(buckets, path)
  IN IF bucketOpt /= <<>> /\ bucketOpt[1].ndv /= <<>> THEN bucketOpt[1].ndv[1] ELSE 0

\* The sum over num and str only.
TotalNdv_NoBool(buckets, q) ==
  IF q.err THEN [ndv |-> -1, asserted |-> TRUE, overrun |-> q.overrun]
  ELSE LET total_ndv == NdvAt(buckets, q.out \o NumSuffix) + NdvAt(buckets, q.out \o StrSuffix)
       IN [ndv |-> IF total_ndv > 0 THEN total_ndv ELSE -1, asserted |-> FALSE,
           overrun |-> q.overrun]

\* The loop over the suffixes num, bool and str after
\* build_histogram_query_string has come back with q, and the return; ndv is
\* the returned size_t, with -1 for the size_t that -1 converts to.
TotalNdv(buckets, q) ==
  IF q.err THEN [ndv |-> -1, asserted |-> TRUE, overrun |-> q.overrun]
  ELSE LET total_ndv == NdvAt(buckets, q.out \o NumSuffix)
                        + NdvAt(buckets, q.out \o BoolSuffix)
                        + NdvAt(buckets, q.out \o StrSuffix)
       IN [ndv |-> IF total_ndv > 0 THEN total_ndv ELSE -1, asserted |-> FALSE,
           overrun |-> q.overrun]

\* Json_flex::get_ndv(func), json_path_arg being what
\* get_json_func_path_item left in it.
get_ndv(buckets, func, json_path_arg) ==
  IF func.name \notin {"json_unquote", "json_value"}
  THEN [ndv |-> -1, asserted |-> FALSE, overrun |-> FALSE]
  ELSE TotalNdv(buckets, build_histogram_query_string(json_path_arg.str, "", FALSE))

(***************************************************************************)
(* The documents handed to json_to_histogram: objects with a buckets       *)
(* member made of the elements below, and two objects without a buckets    *)
(* array.                                                                  *)
(***************************************************************************)
\* The elements of the buckets array by name: of every length from 0 to 8,
\* the lengths 3, 5, 6 and 7 with members of the types the format names
\* (WellTyped), and of an accepted length with a member of a wrong type or
\* a sub-histogram that is broken (IllTyped).
Elements ==
  LET Fixed(key_path, frequency, null_values) ==
        <<Json("J_OPAQUE", key_path), Json("J_DOUBLE", frequency),
          Json("J_DOUBLE", null_values)>>
      Entry2(value, frequency) == Json("J_ARRAY", <<value, Json("J_DOUBLE", frequency)>>)
      Entry3(value, frequency, ndv) ==
        Json("J_ARRAY", <<value, Json("J_DOUBLE", frequency), Json("J_INT", ndv)>>)
      IntEntries ==
        Json("J_ARRAY", <<Entry2(Json("J_INT", 0), Rat(3, 4)),
                          Entry2(Json("J_INT", 1), Rat(1, 4))>>)
      IntSingleton ==
        Json("J_OBJECT", [type |-> Json("J_STRING", "singleton"), buckets |-> IntEntries,
                          rest_frequency |-> Json("J_DOUBLE", Rat(1, 8))])
      FloatEquiHeight ==
        Json("J_OBJECT",
             [type |-> Json("J_STRING", "equi-height"),
              buckets |-> Json("J_ARRAY", <<Entry3(Json("J_DOUBLE", Rat(3, 2)), Half, 2),
                                            Entry3(Json("J_DOUBLE", Rat(5, 2)), Half, 2)>>)])
      \* the sub-histogram of mytest_histogram.test
      IntEquiHeight ==
        Json("J_OBJECT",
             [type |-> Json("J_STRING", "equi-height"),
              buckets |-> Json("J_ARRAY", <<Entry3(Json("J_INT", 0), Rat(1, 10), 1),
                                            Entry3(Json("J_INT", 1), Rat(1, 10), 1)>>)])
      StringSingleton ==
        Json("J_OBJECT",
             [type |-> Json("J_STRING", "singleton"),
              buckets |-> Json("J_ARRAY", <<Entry2(Json("J_OPAQUE", <<"a">>), Half),
                                            Entry2(Json("J_OPAQUE", <<"b">>), Rat(1, 4))>>),
              rest_frequency |-> Json("J_DOUBLE", Rat(1, 4))])
      \* the second entry is not an array
      BrokenEntry ==
        Json("J_OBJECT",
             [type |-> Json("J_STRING", "singleton"),
              buckets |-> Json("J_ARRAY", <<Entry2(Json("J_INT", 0), Rat(3, 4)),
                                            Json("J_INT", 1)>>)])
      \* the second entry holds a value of another type than the bucket's
      BrokenValue ==
        Json("J_OBJECT",
             [type |-> Json("J_STRING", "singleton"),
              buckets |-> Json("J_ARRAY", <<Entry2(Json("J_INT", 0), Rat(3, 4)),
                                            Entry2(Json("J_DOUBLE", One), Rat(1, 4))>>)])
      NoType == Json("J_OBJECT", [buckets |-> IntEntries])
      Len3 == Fixed(K, Half, Half)
      Len6Num == Fixed(Kn, One, Zero) \o <<Json("J_INT", 0), Json("J_INT", 3), Json("J_INT", 4)>>
  IN [Len0 |-> <<>>,
      Len1 |-> SubSeq(Len3, 1, 1),
      Len2 |-> SubSeq(Len3, 1, 2),
      Len3 |-> Len3,
      Len3Over |-> Fixed(K, Rat(3, 2), Zero),
      Len4 |-> Len3 \o <<Json("J_INT", 0)>>,
      Len5 |-> Fixed(Kn, Half, Zero) \o <<Json("J_INT", 0), Json("J_INT", 3)>>,
      Len5Uint |-> Fixed(Kn, Rat(3, 4), Zero) \o <<Json("J_UINT", 0), Json("J_UINT", 3)>>,
      Len6Num |-> Len6Num,
      Len6Bool |-> Fixed(Kb, Rat(1, 4), Half)
                   \o <<Json("J_BOOLEAN", FALSE), Json("J_BOOLEAN", TRUE), Json("J_INT", 2)>>,
      Len6Str |-> Fixed(Ks, Half, Zero)
                  \o <<Json("J_OPAQUE", <<"a">>), Json("J_OPAQUE", <<"c">>), Json("J_INT", 3)>>,
      Len7Int |-> Len6Num \o <<IntSingleton>>,
      Len7Equi |-> Fixed(Kn, Rat(2, 5), Zero)
                   \o <<Json("J_INT", 0), Json("J_INT", 3), Json("J_INT", 4), IntEquiHeight>>,
      Len7Float |-> Fixed(Kn, Half, Zero)
                    \o <<Json("J_DOUBLE", Rat(1, 2)), Json("J_DOUBLE", Rat(5, 2)),
                         Json("J_INT", 4), FloatEquiHeight>>,
      Len7Str |-> Fixed(Ks, One, Zero)
                  \o <<Json("J_OPAQUE", <<"a">>), Json("J_OPAQUE", <<"c">>), Json("J_INT", 3),
                       StringSingleton>>,
      Len8 |-> Len6Num \o <<IntSingleton, Json("J_INT", 0)>>,
      StringKeyPath |-> <<Json("J_STRING", K), Json("J_DOUBLE", Half), Json("J_DOUBLE", Half)>>,
      IntFrequency |-> <<Json("J_OPAQUE", K), Json("J_INT", 1), Json("J_DOUBLE", Half)>>,
      MinMaxDiffer |-> Fixed(Kn, Half, Zero) \o <<Json("J_INT", 0), Json("J_DOUBLE", Rat(5, 2))>>,
      BrokenEntry |-> Len6Num \o <<BrokenEntry>>,
      BrokenValue |-> Len6Num \o <<BrokenValue>>,
      NoType |-> Len6Num \o <<NoType>>]

WellTyped ==
  {Elements[n] : n \in {"Len3", "Len3Over", "Len5", "Len5Uint", "Len6Num", "Len6Bool",
                        "Len6Str", "Len7Int", "Len7Equi", "Len7Float", "Len7Str"}}

\* The buckets arrays: empty, of one element, and some of several.
BucketArrays ==
  LET Of(names) == [i \in 1..Len(names) |-> Json("J_ARRAY", Elements[names[i]])]
  IN {<<>>, <<Json("J_INT", 0)>>}
     \cup {Of(<<n>>) : n \in DOMAIN Elements}
     \cup {Of(<<"Len6Num", "Len6Bool", "Len6Str">>),
           Of(<<"Len5", "Len6Bool">>),
           Of(<<"Len7Int", "Len3">>),
           Of(<<"Len6Bool", "Len2">>),
           Of(<<"BrokenEntry", "Len6Bool">>)}

JsonObjects ==
  {Json("J_OBJECT", [buckets |-> Json("J_ARRAY", a)]) : a \in BucketArrays}
  \cup {Json("J_OBJECT", [buckets |-> Json("J_INT", 0)]),
        Json("J_OBJECT", [sampling_rate |-> Json("J_DOUBLE", One)])}

(***************************************************************************)
(* The life of one histogram: constructed empty, filled once by            *)
(* json_to_histogram, then queried, cloned and written out.  A histogram   *)
(* whose load failed is dropped and a new one constructed.                 *)
(***************************************************************************)
\* What the caller sees of json_to_histogram having come to r.
LoadVisible(r) ==
  {[status |-> "returned", fail |-> r.fail, reported |-> r.reported, asserted |-> r.asserted]}
  \cup (IF r.asserted THEN {Aborted} ELSE {})
  \cup (IF r.overrun THEN {Crashed} ELSE {})

LoadOutcome(r) ==
  /\ ret' \in LoadVisible(r)
  /\ m_buckets' = r.m_buckets
  /\ min_frequency' = r.min_frequency

\* json_to_histogram on the histogram as constructed.
JsonToHistogram ==
  /\ call = NoCall
  /\ m_buckets = <<>> /\ min_frequency = One
  /\ \E json_object \in JsonObjects :
       /\ call' = [fn |-> "json_to_histogram", json_object |-> json_object]
       /\ LoadOutcome(json_to_histogram(json_object, m_buckets, min_frequency))

LoadFailed == call.fn = "json_to_histogram" /\ (ret.status /= "returned" \/ ret.fail)

\* The caller of a load that failed drops the histogram.
Discard ==
  /\ LoadFailed
  /\ m_buckets' = <<>>
  /\ min_frequency' = One
  /\ call' = NoCall
  /\ ret' = NoRet

\* Any other call returns to the caller, the histogram stays.
ReturnLoaded == ~LoadFailed /\ Return

NdvVisible(r) ==
  {[status |-> "returned", ndv |-> r.ndv, asserted |-> r.asserted]}
  \cup (IF r.asserted THEN {Aborted} ELSE {})
  \cup (IF r.overrun THEN {Crashed} ELSE {})

\* get_ndv with a function get_json_func_path_item accepts.
GetNdv ==
  /\ call = NoCall
  /\ \E func \in SupportedFuncs :
       /\ call' = [fn |-> "get_ndv", func |-> func]
       /\ ret' \in NdvVisible(get_ndv(m_buckets, func, get_json_func_path_item(func).arg[1]))
       /\ UNCHANGED <<m_buckets, min_frequency>>

\* get_ndv with a function get_json_func_path_item rejects: the flag is
\* ignored, and where json_path_arg is read it is read uninitialised.
GetNdvUnsupported ==
  /\ call = NoCall
  /\ \E func \in UnsupportedFuncs :
       /\ get_json_func_path_item(func).err
       /\ call' = [fn |-> "get_ndv", func |-> func]
       /\ \/ func.name \in {"json_unquote", "json_value"} /\ ret' = Crashed
          \/ \E wild \in {Lit(p) : p \in SelPaths} :
               ret' \in NdvVisible(get_ndv(m_buckets, func, wild))
       /\ UNCHANGED <<m_buckets, min_frequency>>

\* clone: the clone is handed to the caller.
Clone ==
  /\ call = NoCall
  /\ call' = [fn |-> "clone"]
  /\ LET c == clone(m_buckets, min_frequency)
     IN ret' \in {[status |-> "returned", clone |-> c.histogram, asserted |-> c.asserted]}
                 \cup (IF c.asserted THEN {Aborted} ELSE {})
  /\ UNCHANGED <<m_buckets, min_frequency>>

\* histogram_to_json: the object is handed to the caller.
HistogramToJson ==
  /\ call = NoCall
  /\ call' = [fn |-> "histogram_to_json"]
  /\ ret' = [status |-> "returned", fail |-> FALSE,
             json_object |-> histogram_to_json(m_buckets)]
  /\ UNCHANGED <<m_buckets, min_frequency>>

NextLoad ==
  \/ JsonToHistogram \/ Discard \/ ReturnLoaded
  \/ GetSelectivity \/ GetNdv \/ GetNdvUnsupported \/ Clone \/ HistogramToJson

SpecLoad == InitEnc /\ [][NextLoad]_vars

\* The calls in progress, seen by the claims.
LoadReturned == call.fn = "json_to_histogram" /\ ret.status = "returned"
IsToJson == call.fn = "histogram_to_json" /\ ret.status = "returned"
IsClone == call.fn = "clone" /\ ret.status = "returned"
IsNdv == call.fn = "get_ndv" /\ ret.status = "returned"

(***************************************************************************)
(* C14: for a histogram H that json_to_histogram loaded, json_to_histogram *)
(* on the output of histogram_to_json(H), run on a new histogram, succeeds *)
(* and leaves buckets equal to those of H: the same buckets in the same    *)
(* order, each with the same key_path, frequency, null_values, value type, *)
(* min_val, max_val, ndv and sub-histogram (kind, entries and              *)
(* rest_frequency).                                                        *)
(***************************************************************************)
Reloaded == json_to_histogram(ret.json_object, <<>>, One)

BucketsRead == call.json_object.v.buckets.v

HasBuckets ==
  /\ LoadReturned
  /\ "buckets" \in DOMAIN call.json_object.v
  /\ call.json_object.v.buckets.t = "J_ARRAY"

AcceptedLengths == {3, 5, 6, 7}

OtherLength(dom) == dom.t = "J_ARRAY" /\ Len(dom.v) \notin AcceptedLengths

C15_BucketLengths ==
  HasBuckets =>
    /\ ~ret.fail => \A i \in 1..Len(BucketsRead) : ~OtherLength(BucketsRead[i])
    /\ \A i \in 1..Len(BucketsRead) :
         /\ OtherLength(BucketsRead[i])
         /\ \A j \in 1..(i - 1) : BucketsRead[j] \in {Json("J_ARRAY", b) : b \in WellTyped}
         => /\ ret.fail
            /\ \E k \in 1..Len(ret.reported) :
                 ret.reported[k].kind = "node" /\ ret.reported[k].node = BucketsRead[i]

(***************************************************************************)
(* C16: when a step of json_to_histogram, a step of json_to_json_gram      *)
(* inside a sub-histogram included, reports an error to the error context, *)
(* json_to_histogram returns failure and stores no bucket past the one the *)
(* error was reported in.                                                  *)
(***************************************************************************)
C16_ErrorsShortCircuit ==
  LoadReturned /\ ret.reported /= <<>> =>
    /\ ret.fail
    /\ Len(ret.reported) = 1

(***************************************************************************)
(* C17: the histogram clone returns has buckets equal to the original's    *)
(* (key_path, frequency, null_values, value type, min_val, max_val, ndv    *)
(* and sub-histogram with its kind, entries and rest_mean_frequency) and   *)
(* the same min_frequency, and histogram_to_json writes the same for both. *)
(***************************************************************************)
C17_CloneEqual ==
  IsClone =>
    /\ ret.clone /= <<>>
    /\ ret.clone[1].m_buckets = m_buckets
    /\ ret.clone[1].min_frequency = min_frequency
    /\ histogram_to_json(ret.clone[1].m_buckets) = histogram_to_json(m_buckets)

(***************************************************************************)
(* C18: get_ndv(func) returns the sum of the ndv of the buckets whose key  *)
(* path is the encoded path of func followed by _num, _bool or _str,       *)
(* counting the siblings that are present, and returns none (-1) exactly   *)
(* when none of the three is present.                                      *)
(***************************************************************************)
SiblingSuffixes == {NumSuffix, BoolSuffix, StrSuffix}

\* The encoded path of the function of the call, without a type suffix.
NdvPath ==
  build_histogram_query_string(get_json_func_path_item(call.func).arg[1].str, "", FALSE).out

\* The buckets find_bucket comes to for the three siblings.
Siblings ==
  {i \in 1..Len(m_buckets) :
     /\ \E s \in SiblingSuffixes : m_buckets[i].key_path = NdvPath \o s
     /\ \A j \in 1..(i - 1) : m_buckets[j].key_path /= m_buckets[i].key_path}

RECURSIVE NdvSum(_)
NdvSum(S) ==
  IF S = {} THEN 0
  ELSE LET i == CHOOSE i \in S : TRUE
       IN (IF m_buckets[i].ndv = <<>> THEN 0 ELSE m_buckets[i].ndv[1]) + NdvSum(S \ {i})

NdvOfSupported == IsNdv /\ call.func \in SupportedFuncs /\ ~ret.asserted

C18_NdvSumsSiblings ==
  NdvOfSupported =>
    /\ Siblings = {} <=> ret.ndv = -1
    /\ Siblings /= {} => ret.ndv = NdvSum(Siblings)

\* C18 as amended: for json_unquote(...) and json_value(...) get_ndv
\* returns the sum of the ndv of the siblings that are present and carry an
\* ndv when that sum is positive, and none otherwise; for every other
\* function it returns none.
C18_NdvOfUnquoted ==
  NdvOfSupported =>
    IF call.func.name \in {"json_unquote", "json_value"} /\ NdvSum(Siblings) > 0
    THEN ret.ndv = NdvSum(Siblings)
    ELSE ret.ndv = -1

\* json_value on a histogram that holds all three siblings, each with an ndv.
C18_Witness ==
  /\ NdvOfSupported
  /\ call.func.name = "json_value"
  /\ Cardinality(Siblings) = 3
  /\ \A i \in Siblings : m_buckets[i].ndv /= <<>>
  /\ ret.ndv = 9

(***************************************************************************)
(* C20: after json_to_histogram has returned success on a histogram as     *)
(* constructed, min_frequency is the smallest frequency of the buckets     *)
(* read, and 1.0 when the buckets array is empty.                          *)
(***************************************************************************)
C20_MinFrequency ==
  LoadReturned /\ ~ret.fail =>
    /\ m_buckets = <<>> => min_frequency = One
    /\ m_buckets /= <<>> =>
         /\ \A i \in 1..Len(m_buckets) : RLeq(min_frequency, m_buckets[i].frequency)
         /\ \E i \in 1..Len(m_buckets) : min_frequency = m_buckets[i].frequency

(***************************************************************************)
(* C19: once json_to_histogram has returned, get_selectivity, get_ndv,     *)
(* clone and histogram_to_json leave the buckets, their sub-histograms and *)
(* min_frequency as they are, and a query returns the same result on the   *)
(* same histogram whenever it is made.                                     *)
(***************************************************************************)
Queries == {"get_selectivity", "get_ndv", "clone", "histogram_to_json"}

QueriesKeepState ==
  call'.fn \in Queries => m_buckets' = m_buckets /\ min_frequency' = min_frequency

\* get_ndv(func) can return n from the histogram as it is.
NdvCanBe(func, n) ==
  ENABLED /\ GetNdv \/ GetNdvUnsupported
          /\ call'.func = func
          /\ ret'.status = "returned"
          /\ ret'.ndv = n

\* No get_ndv call has two results to return from one histogram.
SameQuerySameResult ==
  call = NoCall =>
    \A func \in SupportedFuncs \cup UnsupportedFuncs :
      \A n1, n2 \in -1..NdvSum(1..Len(m_buckets)) :
        NdvCanBe(func, n1) /\ NdvCanBe(func, n2) => n1 = n2

C19_QueriesArePure == [][QueriesKeepState]_vars /\ []SameQuerySameResult

(***************************************************************************)
(* The calls of lookup_bucket on a loaded histogram: the template          *)
(* instances for longlong, double, String and bool, and the lookup by path *)
(* alone.                                                                  *)
(***************************************************************************)
\* The buckets looked up: Buckets, and with them an integer bucket whose
\* min_val is positive, the equi-height bucket of mytest_histogram.test
\* (its last upper_bound lies below max_val), singletons that list a part of
\* the values and carry rest_mean_frequency, a boolean bucket of both values
\* without a sub-histogram, an equi-height bucket of strings.
LookupBuckets ==
  Buckets \cup {
    Bucket(Kn, Half, Zero, "INT", <<1>>, <<3>>, <<3>>, <<>>),
    Bucket(Kn, Rat(2, 5), Zero, "INT", <<0>>, <<3>>, <<4>>,
           <<EquiHeight(<<Equi(0, Rat(1, 10), 1), Equi(1, Rat(1, 10), 1)>>)>>),
    Bucket(Kn, Half, Zero, "INT", <<0>>, <<3>>, <<4>>,
           <<Singleton(<<Single(0, Half), Single(2, Rat(1, 4))>>, <<Rat(1, 8)>>)>>),
    Bucket(Kn, One, Zero, "FLOAT", <<Rat(1, 2)>>, <<Rat(7, 2)>>, <<4>>,
           <<Singleton(<<Single(Rat(1, 2), Half), Single(Rat(5, 2), Rat(1, 4))>>,
                       <<Rat(1, 8)>>)>>),
    Bucket(Ks, Half, Zero, "STRING", <<<<"a">>>>, <<<<"d">>>>, <<4>>,
           <<Singleton(<<Single(<<"a">>, Half), Single(<<"c">>, Rat(1, 4))>>, <<Rat(1, 8)>>)>>),
    Bucket(Ks, Half, Zero, "STRING", <<<<"a">>>>, <<<<"c">>>>, <<3>>,
           <<EquiHeight(<<Equi(<<"b">>, Half, 2), Equi(<<"c">>, Half, 1)>>)>>),
    Bucket(Kb, Half, Zero, "BOOL", <<FALSE>>, <<TRUE>>, <<2>>, <<>>)
  }

\* The comparands by the C++ type that selects the template instance.
TypedValues ==
  {[t |-> "longlong", v |-> v] : v \in -1..4}
  \cup {[t |-> "double", v |-> Rat(n, 2)] : n \in -1..8}
  \cup {[t |-> "String", v |-> v] : v \in {<<"a">>, <<"a", "b">>, <<"b">>, <<"c">>, <<"d">>}}
  \cup {[t |-> "bool", v |-> v] : v \in BOOLEAN}

\* What the caller sees of a lookup that came to result r: a debug build
\* aborts in an assert that does not hold, a release build goes on.
LookupVisible(r) ==
  {[status |-> "returned", eq |-> r.eq, lt |-> r.lt, gt |-> r.gt, asserted |-> r.asserted]}
  \cup (IF r.asserted THEN {Aborted} ELSE {})

\* lookup_bucket(path, cmp_val): the callers pass the path that
\* build_histogram_query_string has ended with the suffix of the comparand's
\* type.
LookupBucketTyped ==
  /\ call = NoCall
  /\ \E tv \in TypedValues, path \in {Kn, Ks, Kb} :
       /\ path = K \o (CASE tv.t \in {"longlong", "double"} -> NumSuffix
                         [] tv.t = "String" -> StrSuffix
                         [] tv.t = "bool" -> BoolSuffix)
       /\ call' = [fn |-> "lookup_bucket", path |-> path, cmp_val |-> <<tv>>]
       /\ ret' \in LookupVisible(lookup_bucket_typed(m_buckets, min_frequency, path, tv))
       /\ UNCHANGED <<m_buckets, min_frequency>>

\* lookup_bucket(path)
LookupBucket ==
  /\ call = NoCall
  /\ \E path \in {K, Kn, Ks, Kb} :
       /\ call' = [fn |-> "lookup_bucket", path |-> path, cmp_val |-> <<>>]
       /\ ret' \in LookupVisible(lookup_bucket(m_buckets, min_frequency, path))
       /\ UNCHANGED <<m_buckets, min_frequency>>

\* A histogram after json_to_histogram.
InitLookup ==
  /\ m_buckets \in SeqsUpTo(LookupBuckets, MaxBuckets)
  /\ min_frequency = MinFrequency(m_buckets, Len(m_buckets))
  /\ call = NoCall
  /\ ret = NoRet

NextLookup == LookupBucketTyped \/ LookupBucket \/ Return

SpecLookup == InitLookup /\ [][NextLookup]_vars

\* The lookup in progress, seen by the claims: its bucket, its comparand,
\* the base frequency of the bucket.
IsLookup == call.fn = "lookup_bucket" /\ ret.status = "returned"
Found == find_bucket(m_buckets, call.path)
Cmp == call.cmp_val[1]
Base == base_freq(Found[1])
Ranged == Found[1].min_val /= <<>> /\ Found[1].max_val /= <<>>

\* The comparand and a stored value of the bucket as numbers.
CmpNum == IF Cmp.t = "longlong" THEN Rat(Cmp.v, 1) ELSE Cmp.v
StoredNum(v) == IF Found[1].values_type = "INT" THEN Rat(v, 1) ELSE v

\* The comparand is below, above, equal to the stored value v.
IsBelow(v) == IF Cmp.t = "String" THEN stringcmp(Cmp.v, v) < 0 ELSE RLess(CmpNum, StoredNum(v))
IsAbove(v) == IF Cmp.t = "String" THEN stringcmp(Cmp.v, v) > 0 ELSE RLess(StoredNum(v), CmpNum)
IsEqual(v) == ~IsBelow(v) /\ ~IsAbove(v)

\* A numeric comparand on a numeric bucket, a string on a bucket of strings.
Numeric == Cmp.t \in {"longlong", "double"} /\ Found[1].values_type \in {"INT", "FLOAT"}
Paired == Numeric \/ (Cmp.t = "String" /\ Found[1].values_type = "STRING")

\* A typed lookup that found a bucket of values the comparand pairs with.
PairedLookup == IsLookup /\ call.cmp_val /= <<>> /\ Found /= <<>> /\ Paired

\* The comparand is of the bucket's type, an integer on a bucket of doubles
\* counting as the double it is promoted to on entry.
OwnType ==
  \/ Cmp.t = "longlong" /\ Found[1].values_type \in {"INT", "FLOAT"}
  \/ Cmp.t = "double" /\ Found[1].values_type = "FLOAT"
  \/ Cmp.t = "String" /\ Found[1].values_type = "STRING"

InRange == Ranged => ~IsBelow(Found[1].min_val[1]) /\ ~IsAbove(Found[1].max_val[1])

\* A typed lookup, in a bucket of the comparand's type, of a comparand the
\* range pre-filter lets through.
OwnLookup == IsLookup /\ call.cmp_val /= <<>> /\ Found /= <<>> /\ OwnType /\ InRange

\* The result the caller holds.
Gives(eq, lt, gt) == ret.eq = eq /\ ret.lt = lt /\ ret.gt = gt

(***************************************************************************)
(* C21: for a found bucket that has min_val and max_val, the typed lookup  *)
(* of a comparand v returns {eq = 0, lt = 0, gt = base} when v < min_val   *)
(* and {eq = 0, lt = base, gt = 0} when v > max_val, for integer, float    *)
(* and string comparands and for both pairings of a numeric comparand with *)
(* a numeric bucket of the other type.                                     *)
(***************************************************************************)
C21_RangePreFilter ==
  (PairedLookup /\ Ranged)
    => /\ IsBelow(Found[1].min_val[1]) => Gives(Zero, Zero, Base)
       /\ IsAbove(Found[1].max_val[1]) => Gives(Zero, Base, Zero)

(***************************************************************************)
(* C22: for a found bucket and every integral value v, the typed lookup of *)
(* the integer comparand v and the typed lookup of the float comparand     *)
(* equal to v return the same {eq, lt, gt}, on a float-typed bucket (the   *)
(* integer is promoted) and on an integer-typed one (the float is          *)
(* truncated and looked up as an integer).                                 *)
(***************************************************************************)
\* The comparand of the other numeric type with the same value.
OtherNumeric(tv) ==
  IF tv.t = "longlong" THEN [t |-> "double", v |-> Rat(tv.v, 1)]
  ELSE [t |-> "longlong", v |-> tv.v.n]

C22_IntegralFloatAsInteger ==
  (PairedLookup /\ Numeric /\ IsIntegral(CmpNum))
    => LET other == lookup_bucket_typed(m_buckets, min_frequency, call.path, OtherNumeric(Cmp))
       IN Gives(other.eq, other.lt, other.gt)

(***************************************************************************)
(* C23: in a singleton sub-histogram lookup where the comparand equals the *)
(* value of an entry, eq = base * entry.frequency, lt = base * cumulative  *)
(* and gt = base * (1 - cumulative - entry.frequency), cumulative being    *)
(* the sum of the frequencies of the entries before the matching one, for  *)
(* integer, float and string buckets.                                      *)
(***************************************************************************)
\* The entries of the found bucket's sub-histogram of either kind.
HasGram(type) == Found[1].histogram /= <<>> /\ Found[1].histogram[1].buckets_type = type
Singles == Found[1].histogram[1].single_bucks
Equis == Found[1].histogram[1].equi_bucks

\* The sum of the frequencies of the first n entries.
RECURSIVE Cumulative(_, _)
Cumulative(bucks, n) ==
  IF n = 0 THEN Zero ELSE RAdd(Cumulative(bucks, n - 1), bucks[n].frequency)

\* Entry i is the first one whose value is the comparand.
MatchAt(i) == IsEqual(Singles[i].value) /\ \A j \in 1..(i - 1) : ~IsEqual(Singles[j].value)

C23_SingletonMatch ==
  (OwnLookup /\ HasGram("SINGLETON"))
    => \A i \in 1..Len(Singles) :
         MatchAt(i) =>
           Gives(RMul(Base, Singles[i].frequency),
                 RMul(Base, Cumulative(Singles, i - 1)),
                 RMul(Base, RSub(RSub(One, Cumulative(Singles, i - 1)), Singles[i].frequency)))

C23_Witness ==
  /\ OwnLookup /\ HasGram("SINGLETON")
  /\ Cmp.t = "String"
  /\ MatchAt(2)
  /\ ret.lt = RMul(Base, Singles[1].frequency)

(***************************************************************************)
(* C24: in a singleton sub-histogram lookup where the in-range comparand v *)
(* matches no entry, eq = base * rest_mean_frequency (0 when absent); when *)
(* an entry greater than v exists, lt = base * cumulative and              *)
(* gt = base * (1 - cumulative), cumulative summed over the entries before *)
(* the first such entry; when v is greater than every entry, lt = base and *)
(* gt = 0; for integer, float and string buckets alike.                    *)
(***************************************************************************)
\* Entry i is the first one whose value is greater than the comparand.
GreaterAt(i) == IsBelow(Singles[i].value) /\ \A j \in 1..(i - 1) : ~IsBelow(Singles[j].value)

Unlisted == \A i \in 1..Len(Singles) : ~IsEqual(Singles[i].value)

C24_SingletonNoMatch ==
  (OwnLookup /\ HasGram("SINGLETON") /\ Unlisted)
    => LET rest == RMul(Base, RestMean(Found[1].histogram[1]))
       IN /\ \A i \in 1..Len(Singles) :
               GreaterAt(i) =>
                 Gives(rest, RMul(Base, Cumulative(Singles, i - 1)),
                       RMul(Base, RSub(One, Cumulative(Singles, i - 1))))
          /\ (\A i \in 1..Len(Singles) : IsAbove(Singles[i].value))
               => Gives(rest, Base, Zero)

(***************************************************************************)
(* C25: in an equi-height sub-histogram lookup of an in-range comparand v, *)
(* the result is taken from the first entry whose upper_bound >= v:        *)
(* eq = (base * entry.frequency) / entry.ndv, lt = base * cumulative,      *)
(* gt = base * (1 - cumulative), cumulative being the sum of the           *)
(* frequencies of the entries before that entry.                           *)
(***************************************************************************)
\* Entry i is the first one whose upper_bound is not below the comparand.
BoundAt(i) == ~IsAbove(Equis[i].upper_bound) /\ \A j \in 1..(i - 1) : IsAbove(Equis[j].upper_bound)

\* Equi-height sub-histograms are kept for numbers (json_flex.h:351-352).
EquiHeightLookup == OwnLookup /\ HasGram("EQUI_HEIGHT") /\ Numeric

C25_EquiHeightEntry ==
  EquiHeightLookup
    => \A i \in 1..Len(Equis) :
         BoundAt(i) =>
           Gives(RDivInt(RMul(Base, Equis[i].frequency), Equis[i].ndv),
                 RMul(Base, Cumulative(Equis, i - 1)),
                 RMul(Base, RSub(One, Cumulative(Equis, i - 1))))

C25_Witness ==
  /\ EquiHeightLookup
  /\ Cmp = [t |-> "longlong", v |-> 2]
  /\ BoundAt(2)
  /\ Found[1].null_values = Half
  /\ Gives(Rat(1, 16), Rat(1, 8), Rat(1, 8))

(***************************************************************************)
(* C26: for every histogram that json_to_histogram accepts and every       *)
(* comparand that passes the range pre-filter (min_val <= v <= max_val),   *)
(* the equi-height scan finds an entry with upper_bound >= v: the          *)
(* assert(false) behind the scan is not reached.                           *)
(***************************************************************************)
\* A stored value of bucket b and the value of a numeric item as numbers.
NumberIn(b, v) == IF b.values_type = "INT" THEN Rat(v, 1) ELSE v
NumberOf(item) == IF item.type = "INT_ITEM" THEN Rat(item.val, 1) ELSE item.val

\* A typed call with one numeric comparand that looks up, in a loaded
\* bucket of the comparand's type with an equi-height sub-histogram, a
\* comparand between min_val and max_val.
LoadedEquiHeightLookup ==
  /\ Supported /\ TypeCertain /\ ret.status \in {"returned", "abort"}
  /\ Len(call.comparands) = 1
  /\ call.op \in {"EQUALS_TO", "NOT_EQUALS_TO", "LESS_THAN", "GREATER_THAN"}
  /\ CallBucket /= <<>>
  /\ \/ call.comparands[1].type = "INT_ITEM" /\ CallBucket[1].values_type \in {"INT", "FLOAT"}
     \/ call.comparands[1].type = "REAL_ITEM" /\ CallBucket[1].values_type = "FLOAT"
  /\ CallBucket[1].histogram /= <<>>
  /\ CallBucket[1].histogram[1].buckets_type = "EQUI_HEIGHT"
  /\ RLeq(NumberIn(CallBucket[1], CallBucket[1].min_val[1]), NumberOf(call.comparands[1]))
  /\ RLeq(NumberOf(call.comparands[1]), NumberIn(CallBucket[1], CallBucket[1].max_val[1]))

C26_EquiHeightScanFinds ==
  LoadedEquiHeightLookup
    => /\ \E i \in 1..Len(CallBucket[1].histogram[1].equi_bucks) :
            RLeq(NumberOf(call.comparands[1]),
                 NumberIn(CallBucket[1], CallBucket[1].histogram[1].equi_bucks[i].upper_bound))
       /\ ret.status = "returned"
       /\ ~ret.asserted

(***************************************************************************)
(* C27: for a found bucket with no sub-histogram and an in-range comparand *)
(* (typed lookup), or for an untyped lookup, eq = base / ndv and           *)
(* lt = gt = base * 0.3 when the bucket has an ndv, eq = base * 0.1 and    *)
(* lt = gt = base * 0.3 when it has none.                                  *)
(***************************************************************************)
\* A lookup by path alone, or a typed one of an integer, a float or a
\* string in a bucket without sub-histogram that holds values of the
\* comparand's type (or of no known type) and has the comparand in range.
NoGramLookup ==
  /\ IsLookup /\ Found /= <<>>
  /\ \/ call.cmp_val = <<>>
     \/ /\ Found[1].histogram = <<>>
        /\ OwnType \/ (Found[1].values_type = "UNKNOWN" /\ Cmp.t /= "bool")
        /\ InRange

BoolLookup == IsLookup /\ call.cmp_val /= <<>> /\ Cmp.t = "bool" /\ Found /= <<>>

OneValue == Ranged /\ Found[1].min_val[1] = Found[1].max_val[1]

C28_BooleanLookup ==
  BoolLookup
    => /\ ret.lt = Zero
       /\ ret.gt = Zero
       /\ OneValue
            => ret.eq = (IF Found[1].min_val[1] = Cmp.v THEN Base ELSE Zero)
       /\ (~OneValue /\ HasGram("SINGLETON") /\ Singles /= <<>>)
            => ret.eq = RMul(Base, IF Singles[1].value = Cmp.v THEN Singles[1].frequency
                                   ELSE RSub(One, Singles[1].frequency))

(***************************************************************************)
(* C29: for an equi-height bucket, the typed lookup of a comparand equal   *)
(* to the bucket's max_val falls in the final range of the sub-histogram   *)
(* and returns gt = 0.                                                     *)
(***************************************************************************)
C29_MaxValInFinalRange ==
  (EquiHeightLookup /\ IsEqual(Found[1].max_val[1]))
    => /\ BoundAt(Len(Equis))
       /\ ret.gt = Zero

(***************************************************************************)
(* C30: for every found bucket with min_val and max_val (with a singleton  *)
(* sub-histogram, an equi-height sub-histogram, or none), the typed lookup *)
(* of a comparand equal to min_val returns lt = 0 and gt = base - eq.      *)
(***************************************************************************)
MinValLookup == OwnLookup /\ Ranged /\ IsEqual(Found[1].min_val[1])

=============================================================================
